---- MODULE Spec2Model ----
(***************************************************************************)
(* Reminder scheduling engine of thursday-notifications-service:          *)
(* the Redis-backed reminder store (services/redis.js), the next-run      *)
(* calculator and dispatch loop (services/scheduler.js), the creation     *)
(* path (handlers/messageHandler.js) and the management commands          *)
(* (index.js).                                                             *)
(*                                                                         *)
(* Time is counted in whole seconds since the Unix epoch.  Every          *)
(* comparison the code makes against the clock is between the clock and   *)
(* an instant whose seconds and milliseconds are zero, so truncating the  *)
(* clock to seconds keeps every branch.  Every Redis command is one       *)
(* atomic step; an async function is a sequence of such steps, and the    *)
(* steps of different handlers and of the dispatch loop interleave.       *)
(***************************************************************************)
EXTENDS Integers, Sequences, FiniteSets, TLC

(***************************************************************************)
(* Civil calendar (what luxon's DateTime does for a fixed-offset zone)     *)
(***************************************************************************)

SecondsPerMinute == 60
SecondsPerDay == 86400

\* IANA zones without daylight saving, with their UTC offsets in seconds.
Zones == {"UTC", "Asia/Tokyo"}

\* value of a missing timezone (JavaScript undefined / absent JSON field)
NoTz == "undefined"

\* luxon normalizeZone: a missing zone falls back to the system zone
setZone(tz) == IF tz = NoTz THEN "UTC" ELSE tz

ZoneOffset(tz) == IF setZone(tz) = "Asia/Tokyo" THEN 32400 ELSE 0

IsLeapYear(y) == (y % 4 = 0 /\ y % 100 # 0) \/ y % 400 = 0

DaysInMonth(y, m) ==
  IF m = 2 THEN (IF IsLeapYear(y) THEN 29 ELSE 28)
  ELSE IF m \in {4, 6, 9, 11} THEN 30 ELSE 31

\* days since 1970-01-01 of a civil date (proleptic Gregorian)
DaysFromEra(era, yoe, doy) ==
  era * 146097 + yoe * 365 + yoe \div 4 - yoe \div 100 + doy - 719468

DaysFromShifted(yy, mp, d) ==
  DaysFromEra(yy \div 400, yy % 400, (153 * mp + 2) \div 5 + d - 1)

DaysFromCivil(y, m, d) ==
  DaysFromShifted(IF m <= 2 THEN y - 1 ELSE y,
                  IF m > 2 THEN m - 3 ELSE m + 9, d)

\* civil date of a day number (at or after 0000-03-01)
MakeCivil(y, m, d) ==
  [year |-> IF m <= 2 THEN y + 1 ELSE y, month |-> m, day |-> d]

CivilFromMp(y, doy, mp) ==
  MakeCivil(y, IF mp < 10 THEN mp + 3 ELSE mp - 9,
            doy - (153 * mp + 2) \div 5 + 1)

CivilFromDoy(y, doy) == CivilFromMp(y, doy, (5 * doy + 2) \div 153)

CivilFromYoe(era, doe, yoe) ==
  CivilFromDoy(yoe + era * 400,
               doe - (365 * yoe + yoe \div 4 - yoe \div 100))

CivilFromDoe(era, doe) ==
  CivilFromYoe(era, doe,
               (doe - doe \div 1460 + doe \div 36524 - doe \div 146096)
                 \div 365)

CivilFromDays(z) ==
  CivilFromDoe((z + 719468) \div 146097, (z + 719468) % 146097)

\* the local civil fields of day number days, second sod of the day
FieldsOf(c, days, sod) ==
  [year |-> c.year, month |-> c.month, day |-> c.day,
   hour |-> sod \div 3600, minute |-> (sod % 3600) \div 60,
   second |-> sod % 60,
   weekday |-> ((days + 3) % 7) + 1]   \* luxon: 1 = Monday .. 7 = Sunday

LocalFieldsAt(l) ==
  FieldsOf(CivilFromDays(l \div SecondsPerDay), l \div SecondsPerDay,
           l % SecondsPerDay)

\* DateTime.fromMillis(t).setZone(tz): the local civil fields of an instant
LocalFields(t, tz) == LocalFieldsAt(t + ZoneOffset(tz))

\* an invalid luxon DateTime / an Invalid Date
Invalid == -1

\* DateTime.fromObject({year, month, day, hour, minute}, {zone}): the
\* instant, or Invalid when a unit is out of range (luxon does not roll
\* an out-of-range day or month over)
fromObject(y, m, d, h, mi, tz) ==
  IF m < 1 \/ m > 12 THEN Invalid
  ELSE IF d < 1 \/ d > DaysInMonth(y, m) THEN Invalid
  ELSE IF h < 0 \/ h > 23 \/ mi < 0 \/ mi > 59 THEN Invalid
  ELSE DaysFromCivil(y, m, d) * SecondsPerDay + h * 3600 + mi * 60
         - ZoneOffset(tz)

\* f.set({hour, minute, second: 0, millisecond: 0}) for local fields f:
\* set does not check the ranges of the units, an hour of 25 rolls over
\* into the next day
setTimeOf(f, tz, h, mi) ==
  DaysFromCivil(f.year, f.month, f.day) * SecondsPerDay + h * 3600 + mi * 60
    - ZoneOffset(tz)

\* now.set({hour, minute, second: 0, millisecond: 0}) in zone tz
setTime(t, tz, h, mi) == setTimeOf(LocalFields(t, tz), tz, h, mi)

\* a plus that adds no days
plusNoDays(t, n) == t

\* dt.plus({days: n}) in a zone without daylight saving
plusDays(t, n) == t + n * SecondsPerDay

ISOOf(f) == <<f.year, f.month, f.day, f.hour, f.minute, f.second>>

\* Date.prototype.toISOString: the UTC civil fields of the instant
toISOString(t) == ISOOf(LocalFields(t, "UTC"))

\* new Date(isoString).getTime()
DateParse(iso) ==
  DaysFromCivil(iso[1], iso[2], iso[3]) * SecondsPerDay
    + iso[4] * 3600 + iso[5] * 60 + iso[6]

(***************************************************************************)
(* Next-run calculators                                                    *)
(***************************************************************************)

\* JavaScript null
Null == -2

\* now.weekday % 7: 0 = Sunday .. 6 = Saturday
currentDayOf(f) == f.weekday % 7

\* (targetDay - currentDay + 7) % 7
daysUntilOf(targetDay, f) == (targetDay - currentDayOf(f) + 7) % 7

\* the date of the monthly case, with the fallback for an invalid date:
\* DateTime.fromObject({month: targetMonth + 1, day: 0, ...})
monthlyDate(nextRun, targetYear, targetMonth, hours, minutes, tz) ==
  IF nextRun = Invalid
  THEN fromObject(targetYear, targetMonth + 1, 0, hours, minutes, tz)
  ELSE nextRun

\* targetMonth++ with the roll-over into January of the next year
monthlyTarget(advance, now, dayOfMonth, hours, minutes, tz) ==
  IF advance /\ now.month + 1 > 12
  THEN monthlyDate(fromObject(now.year + 1, 1, dayOfMonth, hours, minutes, tz),
                   now.year + 1, 1, hours, minutes, tz)
  ELSE IF advance
  THEN monthlyDate(fromObject(now.year, now.month + 1, dayOfMonth, hours,
                              minutes, tz),
                   now.year, now.month + 1, hours, minutes, tz)
  ELSE monthlyDate(fromObject(now.year, now.month, dayOfMonth, hours,
                              minutes, tz),
                   now.year, now.month, hours, minutes, tz)

\* the switch of calculateNextRun; now are the local fields of t, today is
\* now.set({hour, minute, second: 0, millisecond: 0})
nextRunOf(schedule, tz, now, today, t) ==
  IF schedule.frequency = "daily" THEN
    (IF today <= t THEN plusDays(today, 1) ELSE today)
  ELSE IF schedule.frequency = "weekly" THEN
    plusDays(today,
             IF daysUntilOf(schedule.dayOfWeek, now) = 0 /\ today <= t
             THEN 7 ELSE daysUntilOf(schedule.dayOfWeek, now))
  ELSE IF schedule.frequency = "monthly" THEN
    \* currentDate > dayOfMonth || (currentDate === dayOfMonth &&
    \* now.hour > hours || (now.hour === hours && now.minute >= minutes))
    monthlyTarget(\/ now.day > schedule.dayOfMonth
                  \/ (now.day = schedule.dayOfMonth
                      /\ now.hour > schedule.hour)
                  \/ (now.hour = schedule.hour
                      /\ now.minute >= schedule.minute),
                  now, schedule.dayOfMonth, schedule.hour, schedule.minute,
                  tz)
  ELSE Null

\* scheduler.js calculateNextRun(reminder), with DateTime.now() = t.
\* Yields Null, an instant, or Invalid (an Invalid Date object, which is
\* truthy in JavaScript).
calculateNextRun(reminder, t) ==
  IF reminder.schedule.frequency = "once" THEN Null
  ELSE nextRunOf(reminder.schedule, reminder.timezone,
                 LocalFields(t, reminder.timezone),
                 setTime(t, reminder.timezone, reminder.schedule.hour,
                         reminder.schedule.minute),
                 t)

\* a once date that is moved to the next day when it is not after now
onceDateAdvanced(reminderDate, t) ==
  IF reminderDate # Invalid /\ reminderDate <= t
  THEN plusDays(reminderDate, 1) ELSE reminderDate

\* new Date of a once schedule: Null when it is not after now
onceDate(reminderDate, t) ==
  IF reminderDate # Invalid /\ reminderDate <= t THEN Null ELSE reminderDate

\* the recurring part of getDateFromSchedule; today is reminderDate before
\* the switch
recurringDate(schedule, tz, now, today, t) ==
  IF today > t THEN today
  ELSE IF schedule.frequency = "daily" THEN plusDays(today, 1)
  ELSE IF schedule.frequency = "weekly" THEN
    plusDays(today,
             IF daysUntilOf(schedule.dayOfWeek, now) = 0
             THEN 7 ELSE daysUntilOf(schedule.dayOfWeek, now))
  ELSE IF schedule.frequency = "monthly" THEN
    monthlyTarget(\/ now.day > schedule.dayOfMonth
                  \/ (now.day = schedule.dayOfMonth /\ today <= t),
                  now, schedule.dayOfMonth, schedule.hour, schedule.minute,
                  tz)
  ELSE today

\* messageHandler.js getDateFromSchedule(schedule, userTimezone), with
\* DateTime.now() = t.  Yields Null, an instant, or Invalid.
getDateFromSchedule(schedule, userTimezone, t) ==
  IF schedule.isRelative /\ schedule.relativeMinutes # 0
  THEN t + schedule.relativeMinutes * SecondsPerMinute
  ELSE IF schedule.frequency = "once" /\ schedule.date # <<>>
  THEN onceDate(fromObject(schedule.date[1], schedule.date[2],
                           schedule.date[3], schedule.hour, schedule.minute,
                           userTimezone), t)
  ELSE recurringDate(schedule, userTimezone, LocalFields(t, userTimezone),
                     setTime(t, userTimezone, schedule.hour,
                             schedule.minute), t)

(***************************************************************************)
(* Bounds and inputs                                                       *)
(***************************************************************************)

\* chats that talk to the bot (ctx.chat.id.toString())
Owners == {"101", "202"}

\* order of the chat ids as strings (Redis orders equal scores by member)
OwnerRank(o) == IF o = "101" THEN 1 ELSE IF o = "202" THEN 2 ELSE 3

\* value of a destructured property the object does not have
Undefined == "undefined"

\* the clock when the process starts: Monday 2025-03-31 13:59:00 UTC
StartTime == fromObject(2025, 3, 31, 13, 59, "UTC")

\* the clock advances in steps of half a minute
ClockStep == SecondsPerMinute \div 2

\* number of clock steps explored
MaxClockSteps == 3

\* number of commands and button presses the chats send in one run
MaxCommands == 2

\* number of Redis commands that fail in one run
MaxFaults == 1

MsPerSecond == 1000

\* config.SCHEDULER_CHECK_INTERVAL: 60000 ms unless the environment sets it
DefaultCheckInterval == 60000 \div MsPerSecond
CheckIntervals == {DefaultCheckInterval, DefaultCheckInterval \div 2}

\* Math.floor(currentTime / 60000)
minuteBucket(t) == t \div (60000 \div MsPerSecond)

\* retention of the processed map: currentTime - timestamp > 600000
RetentionWindow == 600000 \div MsPerSecond

NoDate == <<>>

\* analysis.schedule as analyzeMessage returns it
Schedule(frequency, time, date, dayOfWeek, dayOfMonth, relativeMinutes) ==
  [frequency |-> frequency, hour |-> time[1], minute |-> time[2],
   date |-> date, dayOfWeek |-> dayOfWeek, dayOfMonth |-> dayOfMonth,
   isRelative |-> relativeMinutes # 0, relativeMinutes |-> relativeMinutes]

\* what the analysis of a /remind message can yield (message and schedule)
Requests ==
  { [message |-> "water",
     schedule |-> [frequency |-> "once", hour |-> 14, minute |-> 0,
                   date |-> NoDate, dayOfWeek |-> 0, dayOfMonth |-> 0,
                   isRelative |-> TRUE, relativeMinutes |-> 1]],
    [message |-> "medicine",
     schedule |-> [frequency |-> "daily", hour |-> 14, minute |-> 0,
                   date |-> NoDate, dayOfWeek |-> 0, dayOfMonth |-> 0,
                   isRelative |-> FALSE, relativeMinutes |-> 0]] }

\* a /remind message for several days of the week (Monday and Wednesday)
MultipleDaysRequests ==
  { [message |-> "gym",
     schedule |-> [frequency |-> "multiple_days", hour |-> 14, minute |-> 0,
                   date |-> NoDate, dayOfWeek |-> 0, dayOfMonth |-> 0,
                   isRelative |-> FALSE, relativeMinutes |-> 0,
                   daysOfWeek |-> <<1, 3>>]] }

\* analyses whose schedule is out of range: time "25:00", dayOfWeek 7,
\* dayOfMonth 32, and the date 2025-02-30
InvalidRequests ==
  { [message |-> "late",
     schedule |-> [frequency |-> "daily", hour |-> 25, minute |-> 0,
                   date |-> NoDate, dayOfWeek |-> 0, dayOfMonth |-> 0,
                   isRelative |-> FALSE, relativeMinutes |-> 0]],
    [message |-> "someday",
     schedule |-> [frequency |-> "weekly", hour |-> 14, minute |-> 0,
                   date |-> NoDate, dayOfWeek |-> 7, dayOfMonth |-> 0,
                   isRelative |-> FALSE, relativeMinutes |-> 0]],
    [message |-> "rent",
     schedule |-> [frequency |-> "monthly", hour |-> 14, minute |-> 0,
                   date |-> NoDate, dayOfWeek |-> 0, dayOfMonth |-> 32,
                   isRelative |-> FALSE, relativeMinutes |-> 0]],
    [message |-> "leap",
     schedule |-> [frequency |-> "once", hour |-> 14, minute |-> 0,
                   date |-> <<2025, 2, 30>>, dayOfWeek |-> 0,
                   dayOfMonth |-> 0,
                   isRelative |-> FALSE, relativeMinutes |-> 0]] }

\* analyses with a one-time schedule on a date: 14:00 of the day the
\* process starts on, and 14:00 of the day before
OnceRequests ==
  { [message |-> "dentist",
     schedule |-> [frequency |-> "once", hour |-> 14, minute |-> 0,
                   date |-> <<2025, 3, 31>>, dayOfWeek |-> 0,
                   dayOfMonth |-> 0,
                   isRelative |-> FALSE, relativeMinutes |-> 0]],
    [message |-> "taxes",
     schedule |-> [frequency |-> "once", hour |-> 14, minute |-> 0,
                   date |-> <<2025, 3, 30>>, dayOfWeek |-> 0,
                   dayOfMonth |-> 0,
                   isRelative |-> FALSE, relativeMinutes |-> 0]] }

\* { EX: 300 } of the reschedule keys, in seconds
RescheduleExpiry == 300

\* an id no reminder has (a stale /delete argument)
StaleId == StartTime - SecondsPerDay

(***************************************************************************)
(* State                                                                   *)
(***************************************************************************)

VARIABLES
  now,                 \* Date.now()
  interval,            \* config.SCHEDULER_CHECK_INTERVAL
  reminders,           \* Redis hashes reminders:<userId>: <<userId, id>> -> reminder
  reminder_schedule,   \* Redis sorted set: <<userId, id>> -> score
  userTimezone,        \* Redis keys user:<userId>:timezone
  processedReminders,  \* scheduler's Map: <<chatId, id, bucket>> -> timestamp
  sched,               \* the dispatch loop (processReminders)
  remind,              \* the /remind handler in flight
  del,                 \* the /delete command or delete button in flight
  bulk,                \* the update_tz_all action in flight
  commands,            \* number of commands and button presses so far
  sent,                \* history: delivery calls per <<userId, id, bucket>>
  deleted,             \* history: reminders whose delete reported success
  faults,              \* number of Redis commands that have failed
  calc,                \* a next-run calculator applied to one input
  reschedule,          \* Redis keys reschedule:<chatId>:<timestamp>
  tzCmd,               \* the /timezone command or detection in flight
  signal               \* the signal the process has received, if any

vars == <<now, interval, reminders, reminder_schedule, userTimezone,
          processedReminders, sched, remind, del, bulk, commands, sent,
          deleted, faults, calc, reschedule, tzCmd, signal>>

store == <<reminders, reminder_schedule>>

\* f with key k mapped to v (HSET / ZADD / Map.set)
Put(f, k, v) == [x \in DOMAIN f \cup {k} |-> IF x = k THEN v ELSE f[x]]

\* f without key k (HDEL / ZREM / Map.delete)
\* a removal that removes nothing
RemoveNothing(f, k) == f

Remove(f, k) == [x \in DOMAIN f \ {k} |-> f[x]]

NoEntry == [kind |-> "none"]

\* timers is the number of pending setTimeout(processReminders, ...) calls
IdleSched(timerAt) ==
  [pc |-> "idle", timerAt |-> timerAt, timers |-> 1, dueNow |-> 0,
   keys |-> <<>>,
   due |-> <<>>, cur |-> NoEntry, nextRun |-> Null, upd |-> NoEntry,
   last |-> NoEntry]

IdleRemind == [pc |-> "idle"]
IdleDel == [pc |-> "idle", result |-> "none"]
IdleTz == [pc |-> "idle", reply |-> "none"]

\* no calculator is being applied
NoCalc == [pc |-> "none"]

IdleBulk == [pc |-> "idle", result |-> "none", updatedCount |-> 0]

\* no command or button press is being handled
HandlersIdle == remind.pc = "idle" /\ del.pc = "idle" /\ bulk.pc = "idle"

\* what Redis can hold when the process starts: nothing, or a reminder
\* that chat 101 created with /remind a minute before
MedicineDaily == CHOOSE req \in Requests : req.message = "medicine"

EarlierReminder ==
  LET t == StartTime - SecondsPerMinute
  IN [message |-> MedicineDaily.message,
      schedule |-> MedicineDaily.schedule,
      nextRun |-> toISOString(getDateFromSchedule(MedicineDaily.schedule,
                                                  "UTC", t)),
      createdAt |-> toISOString(t),
      timezone |-> "UTC"]

InitialReminders ==
  {<<>>, [k \in {<<"101", StartTime - SecondsPerMinute>>} |-> EarlierReminder]}

Init ==
  /\ now = StartTime
  /\ interval \in CheckIntervals
  /\ reminders \in InitialReminders
  /\ reminder_schedule =
       [k \in DOMAIN reminders |-> DateParse(reminders[k].nextRun)]
  /\ userTimezone = [o \in Owners |-> "UTC"]
  /\ processedReminders = <<>>
  /\ sched = IdleSched(StartTime)
  /\ remind = IdleRemind
  /\ del = IdleDel
  /\ bulk = IdleBulk
  /\ commands = 0
  /\ sent = <<>>
  /\ deleted = {}
  /\ faults = 0
  /\ calc = NoCalc
  /\ reschedule = <<>>
  /\ tzCmd = IdleTz
  /\ signal = "none"

\* a Redis command is answered (TRUE) or fails (FALSE)
Replies == IF faults < MaxFaults THEN BOOLEAN ELSE {TRUE}

\* time passes
Tick ==
  /\ now + ClockStep <= StartTime + MaxClockSteps * ClockStep
  /\ now' = now + ClockStep
  /\ UNCHANGED <<interval, reminders, reminder_schedule, userTimezone,
                 processedReminders, sched, remind, del, bulk, commands, sent,
                 deleted, faults, calc, reschedule, tzCmd, signal>>

(***************************************************************************)
(* services/redis.js getDueReminders                                       *)
(***************************************************************************)

\* an order by descending score
Behind(zset, a, b) ==
  \/ zset[a] > zset[b]
  \/ /\ zset[a] = zset[b]
     /\ \/ OwnerRank(a[1]) < OwnerRank(b[1])
        \/ (a[1] = b[1] /\ a[2] < b[2])

\* order of two members of the sorted set: by score, then by member string
Before(zset, a, b) ==
  \/ zset[a] < zset[b]
  \/ /\ zset[a] = zset[b]
     /\ \/ OwnerRank(a[1]) < OwnerRank(b[1])
        \/ (a[1] = b[1] /\ a[2] < b[2])

RECURSIVE Ascending(_, _)
Ascending(zset, ks) ==
  IF ks = {} THEN <<>>
  ELSE LET first == CHOOSE a \in ks : \A b \in ks \ {a} : Before(zset, a, b)
       IN <<first>> \o Ascending(zset, ks \ {first})

\* a range that takes every member, whatever its score
zRangeAll(zset, max) == Ascending(zset, DOMAIN zset)

\* redisClient.zRangeByScore('reminder_schedule', 0, max)
zRangeByScore(zset, max) ==
  Ascending(zset, {k \in DOMAIN zset : zset[k] >= 0 /\ zset[k] <= max})

\* a pass that ends without setTimeout
FinallyUnarmed(s) ==
  [s EXCEPT !.pc = "idle", !.keys = <<>>, !.due = <<>>, !.cur = NoEntry,
            !.upd = NoEntry]

\* the pass is over: finally { setTimeout(processReminders, interval) }
Finally(s) ==
  [s EXCEPT !.pc = "idle", !.timerAt = now + interval, !.timers = @ + 1,
            !.keys = <<>>, !.due = <<>>, !.cur = NoEntry, !.upd = NoEntry]

\* the timer fires: processReminders() calls getDueReminders(), which
\* reads the clock and issues ZRANGEBYSCORE
processReminders ==
  /\ sched.pc = "idle"
  /\ sched.timers > 0
  /\ now >= sched.timerAt
  /\ sched' = [sched EXCEPT !.pc = "zRangeByScore", !.timers = @ - 1,
                            !.dueNow = now, !.last = NoEntry]
  /\ UNCHANGED <<now, interval, reminders, reminder_schedule, userTimezone,
                 processedReminders, remind, del, bulk, commands, sent,
                 deleted, faults, calc, reschedule, tzCmd, signal>>

\* ZRANGEBYSCORE answers (or fails: getDueReminders rethrows, the pass's
\* outer catch logs, finally re-arms the timer)
getDueRemindersRange ==
  /\ sched.pc = "zRangeByScore"
  /\ \E ok \in Replies :
       IF ok
       THEN LET keys == zRangeByScore(reminder_schedule, sched.dueNow)
            IN /\ sched' = [sched EXCEPT
                              !.pc = IF keys = <<>> THEN "for" ELSE "hGet",
                              !.keys = keys, !.due = <<>>]
               /\ UNCHANGED faults
       ELSE /\ sched' = Finally(sched)
            /\ faults' = faults + 1
  /\ UNCHANGED <<now, interval, reminders, reminder_schedule, userTimezone,
                 processedReminders, remind, del, bulk, commands, sent,
                 deleted, calc, reschedule, tzCmd, signal>>

\* HGET of the next due key answers; a key without a record is dropped
getDueRemindersGet ==
  /\ sched.pc = "hGet"
  /\ \E ok \in Replies :
       IF ok
       THEN LET key == Head(sched.keys)
                userId == key[1]
                reminderId == key[2]
                found == key \in DOMAIN reminders
                due == IF found
                       THEN Append(sched.due,
                                   [userId |-> userId,
                                    reminderId |-> reminderId,
                                    reminder |-> reminders[key]])
                       ELSE sched.due
            IN /\ sched' = [sched EXCEPT
                              !.pc = IF Len(sched.keys) = 1
                                     THEN "for" ELSE "hGet",
                              !.keys = Tail(sched.keys), !.due = due]
               /\ UNCHANGED faults
       ELSE /\ sched' = Finally(sched)
            /\ faults' = faults + 1
  /\ UNCHANGED <<now, interval, reminders, reminder_schedule, userTimezone,
                 processedReminders, remind, del, bulk, commands, sent,
                 deleted, calc, reschedule, tzCmd, signal>>

(***************************************************************************)
(* services/scheduler.js processReminders: the per-entry body              *)
(***************************************************************************)

\* for (const { chatId, reminderId, reminder } of dueReminders): the
\* entries built by getDueReminders have the properties userId, reminderId
\* and reminder, so the destructured chatId is undefined
chatIdOf(entry) == Undefined

\* `${chatId}:${reminderId}:${Math.floor(currentTime / 60000)}`
reminderKeyOf(chatId, reminderId, currentTime) ==
  <<chatId, reminderId, minuteBucket(currentTime)>>

\* processedReminders.has(reminderKey)
\* a loop without the processedReminders.has(reminderKey) test
neverProcessed(processed, reminderKey) == FALSE

alreadyProcessed(processed, reminderKey) == reminderKey \in DOMAIN processed

\* drop the entries with currentTime - timestamp > 600000
cleanUp(processed, currentTime) ==
  [k \in {x \in DOMAIN processed :
            ~(currentTime - processed[x] > RetentionWindow)}
     |-> processed[k]]

\* the outcome recorded when the body of one entry is left
Outcome(cur, kind, store_) ==
  [kind |-> kind, userId |-> cur.userId, reminderId |-> cur.reminderId,
   reminder |-> cur.reminder, chatId |-> cur.chatId,
   currentTime |-> cur.currentTime, sentTo |-> cur.sentTo,
   sentText |-> cur.sentText, delivery |-> cur.delivery,
   calcCalled |-> cur.calcCalled, calc |-> cur.calc, calcAt |-> cur.calcAt,
   store |-> store_]

\* a loop whose first finished entry ends the pass
EntryAborts(s, kind, store_) ==
  [s EXCEPT !.pc = "idle", !.timerAt = now + interval, !.timers = @ + 1,
            !.keys = <<>>, !.due = <<>>,
            !.last = Outcome(s.cur, kind, store_),
            !.cur = NoEntry, !.upd = NoEntry, !.nextRun = Null]

\* leave the body of the current entry and go on with the next one
EntryDone(s, kind, store_) ==
  [s EXCEPT !.pc = "for", !.due = Tail(s.due),
            !.last = Outcome(s.cur, kind, store_),
            !.cur = NoEntry, !.upd = NoEntry, !.nextRun = Null]

\* lines 114-141: dedup check, mark, clean up, call bot.telegram.sendMessage
forEntry ==
  /\ sched.pc = "for"
  /\ sched.due # <<>>
  /\ LET entry == Head(sched.due)
         chatId == chatIdOf(entry)
         currentTime == now
         reminderKey == reminderKeyOf(chatId, entry.reminderId, currentTime)
         cur == [kind |-> "entry", userId |-> entry.userId,
                 reminderId |-> entry.reminderId,
                 reminder |-> entry.reminder, chatId |-> chatId,
                 currentTime |-> currentTime,
                 chatTimezone |-> entry.reminder.timezone,
                 sentTo |-> chatId, sentText |-> entry.reminder.message,
                 delivery |-> "pending", calcCalled |-> FALSE,
                 calc |-> Null, calcAt |-> now]
         occurrence == <<entry.userId, entry.reminderId,
                         minuteBucket(currentTime)>>
     IN IF alreadyProcessed(processedReminders, reminderKey)
        THEN /\ sched' = EntryDone([sched EXCEPT !.cur =
                                      [cur EXCEPT !.delivery = "none",
                                                  !.sentTo = "nobody"]],
                                   "skipped", "none")
             /\ UNCHANGED <<processedReminders, sent>>
        ELSE /\ processedReminders' =
                  cleanUp(Put(processedReminders, reminderKey, currentTime),
                          currentTime)
             /\ sent' = Put(sent, occurrence,
                            IF occurrence \in DOMAIN sent
                            THEN sent[occurrence] + 1 ELSE 1)
             /\ sched' = [sched EXCEPT !.pc = "sendMessage", !.cur = cur]
  /\ UNCHANGED <<now, interval, reminders, reminder_schedule, userTimezone,
                 remind, del, bulk, commands, deleted, faults, calc,
                 reschedule, tzCmd, signal>>

\* sendMessage settles.  Rejected: the entry's catch logs and the loop goes
\* on.  Resolved: calculateNextRun, then updateReminderNextRun (its HGET is
\* issued) for a truthy result, deleteReminder (its HDEL) otherwise.
sendMessage ==
  /\ sched.pc = "sendMessage"
  /\ \E ok \in BOOLEAN :
       IF ok
       THEN LET nextRun == calculateNextRun(sched.cur.reminder, now)
            IN sched' = [sched EXCEPT
                           !.pc = IF nextRun # Null THEN "u_hGet"
                                  ELSE "d_hDel",
                           !.nextRun = nextRun,
                           !.cur = [@ EXCEPT !.delivery = "ok",
                                             !.calcCalled = TRUE,
                                             !.calc = nextRun,
                                             !.calcAt = now]]
       ELSE sched' = EntryDone([sched EXCEPT !.cur.delivery = "failed"],
                               "done", "none")
  /\ UNCHANGED <<now, interval, reminders, reminder_schedule, userTimezone,
                 processedReminders, remind, del, bulk, commands, sent,
                 deleted, faults, calc, reschedule, tzCmd, signal>>

\* the pass has handled every entry of its snapshot
finally ==
  /\ sched.pc = "for"
  /\ sched.due = <<>>
  /\ sched' = Finally(sched)
  /\ UNCHANGED <<now, interval, reminders, reminder_schedule, userTimezone,
                 processedReminders, remind, del, bulk, commands, sent,
                 deleted, faults, calc, reschedule, tzCmd, signal>>

(***************************************************************************)
(* services/redis.js updateReminderNextRun and deleteReminder, as the      *)
(* dispatch loop calls them                                                *)
(***************************************************************************)

\* the reply of HGET for a field the hash does not have
NoReminder == [missing |-> TRUE]

\* redisClient.hGet(`reminders:${userId}`, reminderId)
hGet(hash, userId, reminderId) ==
  IF <<userId, reminderId>> \in DOMAIN hash
  THEN hash[<<userId, reminderId>>] ELSE NoReminder

\* if (!reminderJson)
\* an update without the if (!reminderJson) test
neverMissing(reminderJson) == FALSE

reminderMissing(reminderJson) == reminderJson = NoReminder

\* reminder.nextRun = nextRun.toISOString(); if (timezone) reminder.timezone = timezone
withNextRun(reminder, nextRun, timezone) ==
  [reminder EXCEPT !.nextRun = toISOString(nextRun),
                   !.timezone = IF timezone # NoTz THEN timezone ELSE @]

\* updateReminderNextRun(chatId, reminderId, nextRun, chatTimezone), one
\* Redis reply at a time: HGET, HSET, ZREM, ZADD.  Whatever it throws is
\* rethrown to the entry's catch in processReminders.
updateReminderNextRun ==
  /\ sched.pc \in {"u_hGet", "u_hSet", "u_zRem", "u_zAdd"}
  /\ LET userId == sched.cur.chatId
         reminderId == sched.cur.reminderId
         key == <<userId, reminderId>>
     IN \E ok \in Replies :
          IF ~ok
          THEN /\ sched' = EntryDone(sched, "done", "failed")
               /\ faults' = faults + 1
               /\ UNCHANGED <<reminders, reminder_schedule>>
          ELSE
            /\ UNCHANGED faults
            /\ CASE sched.pc = "u_hGet" ->
                    LET reminderJson == hGet(reminders, userId, reminderId)
                    IN /\ sched' =
                            IF reminderMissing(reminderJson)
                            THEN EntryDone(sched, "done", "notfound")
                            \* JSON.parse(null) is null, and setting a
                            \* property of null throws a TypeError; the
                            \* toISOString of an Invalid Date throws a
                            \* RangeError
                            ELSE IF reminderJson = NoReminder
                                    \/ sched.nextRun = Invalid
                            THEN EntryDone(sched, "done", "threw")
                            ELSE [sched EXCEPT
                                    !.pc = "u_hSet",
                                    !.upd = withNextRun(reminderJson,
                                              sched.nextRun,
                                              sched.cur.chatTimezone)]
                       /\ UNCHANGED <<reminders, reminder_schedule>>
                 [] sched.pc = "u_hSet" ->
                    /\ reminders' = Put(reminders, key, sched.upd)
                    /\ sched' = [sched EXCEPT !.pc = "u_zRem"]
                    /\ UNCHANGED reminder_schedule
                 [] sched.pc = "u_zRem" ->
                    /\ reminder_schedule' = Remove(reminder_schedule, key)
                    /\ sched' = [sched EXCEPT !.pc = "u_zAdd"]
                    /\ UNCHANGED reminders
                 [] sched.pc = "u_zAdd" ->
                    /\ reminder_schedule' =
                         Put(reminder_schedule, key, sched.nextRun)
                    /\ sched' = EntryDone(sched, "done", "updated")
                    /\ UNCHANGED reminders
  /\ UNCHANGED <<now, interval, userTimezone, processedReminders, remind, del,
                 bulk, commands, sent, deleted, calc, reschedule, tzCmd,
                 signal>>

\* deleteReminder(chatId, reminderId): HDEL, then ZREM, then return true
deleteReminder ==
  /\ sched.pc \in {"d_hDel", "d_zRem"}
  /\ LET key == <<sched.cur.chatId, sched.cur.reminderId>>
     IN \E ok \in Replies :
          IF ~ok
          THEN /\ sched' = EntryDone(sched, "done", "failed")
               /\ faults' = faults + 1
               /\ UNCHANGED <<reminders, reminder_schedule>>
          ELSE
            /\ UNCHANGED faults
            /\ CASE sched.pc = "d_hDel" ->
                    /\ reminders' = Remove(reminders, key)
                    /\ sched' = [sched EXCEPT !.pc = "d_zRem"]
                    /\ UNCHANGED reminder_schedule
                 [] sched.pc = "d_zRem" ->
                    /\ reminder_schedule' = Remove(reminder_schedule, key)
                    /\ sched' = EntryDone(sched, "done", "deleted")
                    /\ UNCHANGED reminders
  /\ UNCHANGED <<now, interval, userTimezone, processedReminders, remind, del,
                 bulk, commands, sent, deleted, calc, reschedule, tzCmd,
                 signal>>

(***************************************************************************)
(* handlers/messageHandler.js remindCommandHandler and redis.js            *)
(* saveReminder                                                            *)
(***************************************************************************)

\* /remind arrives from chat o; getUserTimezone(chatId) answers.  Without
\* a saved timezone the handler asks for one and returns.
remindCommandHandler ==
  /\ remind.pc = "idle"
  /\ commands < MaxCommands
  /\ \E o \in Owners, req \in Requests :
       /\ remind' = IF userTimezone[o] = NoTz THEN IdleRemind
                    ELSE [pc |-> "analyze", chatId |-> o, analysis |-> req,
                          chatTimezone |-> userTimezone[o]]
       /\ commands' = commands + 1
  /\ UNCHANGED <<now, interval, reminders, reminder_schedule, userTimezone,
                 processedReminders, sched, del, bulk, sent, deleted, faults,
                 calc, reschedule, tzCmd, signal>>

\* /remind arrives with a message for several days of the week
remindMultipleDays ==
  /\ remind.pc = "idle"
  /\ commands < MaxCommands
  /\ \E o \in Owners, req \in MultipleDaysRequests :
       /\ remind' = IF userTimezone[o] = NoTz THEN IdleRemind
                    ELSE [pc |-> "analyze", chatId |-> o, analysis |-> req,
                          chatTimezone |-> userTimezone[o]]
       /\ commands' = commands + 1
  /\ UNCHANGED <<now, interval, reminders, reminder_schedule, userTimezone,
                 processedReminders, sched, del, bulk, sent, deleted, faults,
                 calc, reschedule, tzCmd, signal>>

\* /remind arrives with a message whose analysis has a schedule out of
\* range: the handler has no check of the schedule's fields
remindInvalidSchedule ==
  /\ remind.pc = "idle"
  /\ commands < MaxCommands
  /\ \E o \in Owners, req \in InvalidRequests :
       /\ remind' = IF userTimezone[o] = NoTz THEN IdleRemind
                    ELSE [pc |-> "analyze", chatId |-> o, analysis |-> req,
                          chatTimezone |-> userTimezone[o]]
       /\ commands' = commands + 1
  /\ UNCHANGED <<now, interval, reminders, reminder_schedule, userTimezone,
                 processedReminders, sched, del, bulk, sent, deleted, faults,
                 calc, reschedule, tzCmd, signal>>

\* /remind arrives with a message for one date and time
remindOnce ==
  /\ remind.pc = "idle"
  /\ commands < MaxCommands
  /\ \E o \in Owners, req \in OnceRequests :
       /\ remind' = IF userTimezone[o] = NoTz THEN IdleRemind
                    ELSE [pc |-> "analyze", chatId |-> o, analysis |-> req,
                          chatTimezone |-> userTimezone[o]]
       /\ commands' = commands + 1
  /\ UNCHANGED <<now, interval, reminders, reminder_schedule, userTimezone,
                 processedReminders, sched, del, bulk, sent, deleted, faults,
                 calc, reschedule, tzCmd, signal>>

\* handleMultipleDaysReminder: the next run of the reminder of one day;
\* local are the fields of now in the chat's zone, today is
\* now.set({hour, minute, ...})
multipleDaysDate(dayOfWeek, local, today, t) ==
  plusDays(today,
           IF daysUntilOf(dayOfWeek, local) = 0 /\ today <= t
           THEN 7 ELSE daysUntilOf(dayOfWeek, local))

\* handleMultipleDaysReminder from the top of its for loop to the HSET of
\* the saveReminder it calls: the weekly reminder of the first of the days
\* left, with Date.now() = t; after the last day the handler replies
handleMultipleDaysReminder(chatId, analysis, chatTimezone, days, t) ==
  IF days = <<>> THEN IdleRemind
  ELSE [pc |-> "hSet", chatId |-> chatId,
        id |-> t,     \* Date.now().toString()
        reminder |->
          [message |-> analysis.message,
           schedule |-> [analysis.schedule EXCEPT
                           !.frequency = "weekly",
                           !.dayOfWeek = Head(days)],
           nextRun |-> toISOString(
                         multipleDaysDate(Head(days),
                                          LocalFields(t, chatTimezone),
                                          setTime(t, chatTimezone,
                                                  analysis.schedule.hour,
                                                  analysis.schedule.minute),
                                          t)),
           createdAt |-> toISOString(t),
           timezone |-> chatTimezone],
        analysis |-> analysis, chatTimezone |-> chatTimezone,
        days |-> Tail(days)]

\* analyzeMessage answers: a multiple_days schedule goes to
\* handleMultipleDaysReminder; otherwise getDateFromSchedule, the future
\* check, the reminder object, and saveReminder up to the HSET it issues
remindAnalyzed ==
  /\ remind.pc = "analyze"
  /\ LET schedule == remind.analysis.schedule
         nextRun == getDateFromSchedule(schedule, remind.chatTimezone, now)
     IN remind' =
          IF schedule.frequency = "multiple_days"
          THEN handleMultipleDaysReminder(remind.chatId, remind.analysis,
                                          remind.chatTimezone,
                                          schedule.daysOfWeek, now)
          \* !nextRun || nextRun < new Date(): no reminder is stored; for
          \* a once schedule the handler issues the SET of a reschedule key
          ELSE IF nextRun = Null \/ (nextRun # Invalid /\ nextRun < now)
          THEN (IF schedule.frequency = "once"
                THEN [pc |-> "set", chatId |-> remind.chatId,
                      rescheduleKey |-> <<remind.chatId, now>>,
                      data |-> [message |-> remind.analysis.message,
                                hour |-> schedule.hour,
                                minute |-> schedule.minute]]
                ELSE IdleRemind)
          \* nextRun.toISOString() of an Invalid Date throws
          ELSE IF nextRun = Invalid THEN IdleRemind
          ELSE [pc |-> "hSet", chatId |-> remind.chatId,
                id |-> now,     \* Date.now().toString()
                reminder |-> [message |-> remind.analysis.message,
                              schedule |-> schedule,
                              nextRun |-> toISOString(nextRun),
                              createdAt |-> toISOString(now),
                              timezone |-> remind.chatTimezone],
                analysis |-> remind.analysis,
                chatTimezone |-> remind.chatTimezone,
                days |-> <<>>]
  /\ UNCHANGED <<now, interval, reminders, reminder_schedule, userTimezone,
                 processedReminders, sched, del, bulk, commands, sent,
                 deleted, faults, calc, reschedule, tzCmd, signal>>

\* saveReminder(userId, reminder): HSET, then ZADD with the score
\* new Date(reminder.nextRun).getTime(); when it returns to
\* handleMultipleDaysReminder the loop goes on with the next day
saveReminder ==
  /\ remind.pc \in {"hSet", "zAdd"}
  /\ LET key == <<remind.chatId, remind.id>>
     IN \E ok \in Replies :
          IF ~ok
          THEN /\ remind' = IdleRemind
               /\ faults' = faults + 1
               /\ UNCHANGED <<reminders, reminder_schedule, deleted>>
          ELSE
            /\ UNCHANGED faults
            /\ CASE remind.pc = "hSet" ->
                    /\ reminders' = Put(reminders, key, remind.reminder)
                    /\ deleted' = deleted \ {key}
                    /\ remind' = [remind EXCEPT !.pc = "zAdd"]
                    /\ UNCHANGED reminder_schedule
                 [] remind.pc = "zAdd" ->
                    /\ reminder_schedule' =
                         Put(reminder_schedule, key,
                             DateParse(remind.reminder.nextRun))
                    /\ remind' =
                         IF "rescheduleKey" \in DOMAIN remind
                         THEN [pc |-> "del", chatId |-> remind.chatId,
                               rescheduleKey |-> remind.rescheduleKey]
                         ELSE handleMultipleDaysReminder(remind.chatId,
                                                         remind.analysis,
                                                         remind.chatTimezone,
                                                         remind.days, now)
                    /\ UNCHANGED <<reminders, deleted>>
  /\ UNCHANGED <<now, interval, userTimezone, processedReminders, sched, del,
                 bulk, commands, sent, calc, reschedule, tzCmd, signal>>

\* the SET of the reschedule key answers; then the reply that offers to
\* set the reminder for tomorrow
rescheduleOffer ==
  /\ remind.pc = "set"
  /\ \E ok \in Replies :
       IF ok
       THEN /\ reschedule' =
                 Put(reschedule, remind.rescheduleKey,
                     [data |-> remind.data,
                      expiresAt |-> now + RescheduleExpiry])
            /\ UNCHANGED faults
       ELSE /\ faults' = faults + 1
            /\ UNCHANGED reschedule
  /\ remind' = IdleRemind
  /\ UNCHANGED <<now, interval, reminders, reminder_schedule, userTimezone,
                 processedReminders, sched, del, bulk, commands, sent,
                 deleted, calc, tzCmd, signal>>

\* the reply of GET for a key Redis does not have (any more)
NoOffer == [missing |-> TRUE]

\* redisClient.get(rescheduleKey) at time t: the value unless it expired
getOffer(keys, rescheduleKey, t) ==
  IF rescheduleKey \in DOMAIN keys /\ t < keys[rescheduleKey].expiresAt
  THEN keys[rescheduleKey].data ELSE NoOffer

\* the reminder bot.action(/reschedule_(.+)/) builds: once, tomorrow at the
\* time of the offer in the chat's zone; tomorrow is
\* DateTime.now().setZone(chatTimezone).plus({days: 1})
rescheduled(reminderData, chatTimezone, tomorrow, t) ==
  [message |-> reminderData.message,
   schedule |-> [frequency |-> "once", hour |-> reminderData.hour,
                 minute |-> reminderData.minute,
                 date |-> <<tomorrow.year, tomorrow.month, tomorrow.day>>,
                 dayOfWeek |-> 0, dayOfMonth |-> 0,
                 isRelative |-> FALSE, relativeMinutes |-> 0],
   nextRun |-> toISOString(setTimeOf(tomorrow, chatTimezone,
                                     reminderData.hour, reminderData.minute)),
   createdAt |-> toISOString(t),
   timezone |-> chatTimezone]

\* the button "Yes, set for tomorrow" of an offer is pressed and the GET
\* of its key is issued
rescheduleAction ==
  /\ remind.pc = "idle"
  /\ commands < MaxCommands
  /\ commands' = commands + 1
  /\ \E rescheduleKey \in DOMAIN reschedule :
       remind' = [pc |-> "get", chatId |-> rescheduleKey[1],
                  rescheduleKey |-> rescheduleKey]
  /\ UNCHANGED <<now, interval, reminders, reminder_schedule, userTimezone,
                 processedReminders, sched, del, bulk, sent, deleted, faults,
                 calc, reschedule, tzCmd, signal>>

\* the GET answers: an expired offer is reported; otherwise
\* getUserTimezone, the reminder for tomorrow, and saveReminder up to the
\* HSET it issues
rescheduleGet ==
  /\ remind.pc = "get"
  /\ \E ok \in Replies :
       IF ok
       THEN /\ remind' =
                 IF getOffer(reschedule, remind.rescheduleKey, now) = NoOffer
                 THEN IdleRemind
                 ELSE [pc |-> "hSet", chatId |-> remind.chatId,
                       id |-> now,
                       reminder |->
                         rescheduled(getOffer(reschedule,
                                              remind.rescheduleKey, now),
                                     setZone(userTimezone[remind.chatId]),
                                     LocalFields(plusDays(now, 1),
                                                 userTimezone[remind.chatId]),
                                     now),
                       rescheduleKey |-> remind.rescheduleKey]
            /\ UNCHANGED faults
       ELSE /\ remind' = IdleRemind
            /\ faults' = faults + 1
  /\ UNCHANGED <<now, interval, reminders, reminder_schedule, userTimezone,
                 processedReminders, sched, del, bulk, commands, sent,
                 deleted, calc, reschedule, tzCmd, signal>>

\* the DEL of the reschedule key answers
rescheduleDel ==
  /\ remind.pc = "del"
  /\ \E ok \in Replies :
       IF ok
       THEN /\ reschedule' = Remove(reschedule, remind.rescheduleKey)
            /\ UNCHANGED faults
       ELSE /\ faults' = faults + 1
            /\ UNCHANGED reschedule
  /\ remind' = IdleRemind
  /\ UNCHANGED <<now, interval, reminders, reminder_schedule, userTimezone,
                 processedReminders, sched, del, bulk, commands, sent,
                 deleted, calc, tzCmd, signal>>

(***************************************************************************)
(* index.js: /delete, the delete button, /timezone                         *)
(***************************************************************************)

\* the ids a chat can name: the ones it has seen, or a stale one
KnownIds ==
  {k[2] : k \in DOMAIN reminders \cup DOMAIN reminder_schedule} \cup {StaleId}

\* HDEL / ZREM of one field or member
hDel(hash, userId, reminderId) == Remove(hash, <<userId, reminderId>>)
zRem(zset, userId, reminderId) == Remove(zset, <<userId, reminderId>>)

\* /delete <id> arrives from chat o and issues HEXISTS; or the delete
\* button of reminder id is pressed in chat o and issues HDEL
deleteArrives ==
  /\ del.pc = "idle"
  /\ commands < MaxCommands
  /\ commands' = commands + 1
  /\ \E o \in Owners, id \in KnownIds, via \in {"command", "action"} :
       del' = [pc |-> IF via = "command" THEN "hExists" ELSE "hDelAction",
               result |-> "none", chatId |-> o, reminderId |-> id]
  /\ UNCHANGED <<now, interval, reminders, reminder_schedule, userTimezone,
                 processedReminders, sched, remind, bulk, sent, deleted,
                 faults, calc, reschedule, tzCmd, signal>>

\* bot.command('delete'): HEXISTS answers (a missing id is reported at
\* once), then HDEL, then ZREM, then the reply that the reminder is deleted
deleteCommand ==
  /\ del.pc \in {"hExists", "hDel", "zRem"}
  /\ \E ok \in Replies :
       IF ~ok
       THEN /\ del' = [pc |-> "idle", result |-> "error"]
            /\ faults' = faults + 1
            /\ UNCHANGED <<reminders, reminder_schedule, deleted>>
       ELSE
         /\ UNCHANGED faults
         /\ CASE del.pc = "hExists" ->
                 /\ del' = IF <<del.chatId, del.reminderId>>
                              \in DOMAIN reminders
                           THEN [del EXCEPT !.pc = "hDel"]
                           ELSE [pc |-> "idle", result |-> "notfound"]
                 /\ UNCHANGED <<reminders, reminder_schedule, deleted>>
              [] del.pc = "hDel" ->
                 /\ reminders' = hDel(reminders, del.chatId, del.reminderId)
                 /\ del' = [del EXCEPT !.pc = "zRem"]
                 /\ UNCHANGED <<reminder_schedule, deleted>>
              [] del.pc = "zRem" ->
                 /\ reminder_schedule' =
                      zRem(reminder_schedule, del.chatId, del.reminderId)
                 /\ del' = [pc |-> "idle", result |-> "ok"]
                 /\ deleted' = deleted \cup {<<del.chatId, del.reminderId>>}
                 /\ UNCHANGED reminders
  /\ UNCHANGED <<now, interval, userTimezone, processedReminders, sched,
                 remind, bulk, commands, sent, calc, reschedule, tzCmd,
                 signal>>

\* bot.action(/delete_(.+)/): HDEL answers with the number of fields it
\* removed; if (deleted) ZREM, then the message that the reminder is deleted
deleteAction ==
  /\ del.pc \in {"hDelAction", "zRemAction"}
  /\ \E ok \in Replies :
       IF ~ok
       THEN /\ del' = [pc |-> "idle", result |-> "error"]
            /\ faults' = faults + 1
            /\ UNCHANGED <<reminders, reminder_schedule, deleted>>
       ELSE
         /\ UNCHANGED faults
         /\ CASE del.pc = "hDelAction" ->
                 /\ reminders' = hDel(reminders, del.chatId, del.reminderId)
                 /\ del' = IF <<del.chatId, del.reminderId>>
                              \in DOMAIN reminders
                           THEN [del EXCEPT !.pc = "zRemAction"]
                           ELSE [pc |-> "idle", result |-> "notfound"]
                 /\ UNCHANGED <<reminder_schedule, deleted>>
              [] del.pc = "zRemAction" ->
                 /\ reminder_schedule' =
                      zRem(reminder_schedule, del.chatId, del.reminderId)
                 /\ del' = [pc |-> "idle", result |-> "ok"]
                 /\ deleted' = deleted \cup {<<del.chatId, del.reminderId>>}
                 /\ UNCHANGED reminders
  /\ UNCHANGED <<now, interval, userTimezone, processedReminders, sched,
                 remind, bulk, commands, sent, calc, reschedule, tzCmd,
                 signal>>

\* a /timezone that also rewrites the zone of the chat's reminders
timezoneCommandRetimes ==
  /\ commands < MaxCommands
  /\ commands' = commands + 1
  /\ \E o \in Owners :
       \E tz \in Zones \ {userTimezone[o]} :
         /\ userTimezone' = [userTimezone EXCEPT ![o] = tz]
         /\ reminders' = [k \in DOMAIN reminders |->
                            IF k[1] = o
                            THEN [reminders[k] EXCEPT !.timezone = tz]
                            ELSE reminders[k]]
  /\ UNCHANGED <<now, interval, reminder_schedule, processedReminders, sched,
                 remind, del, bulk, sent, deleted, faults, calc, reschedule,
                 tzCmd, signal>>

\* /timezone <zone> with a valid zone: saveUserTimezone
timezoneCommand ==
  /\ commands < MaxCommands
  /\ commands' = commands + 1
  /\ \E o \in Owners :
       \E tz \in Zones \ {userTimezone[o]} :
         userTimezone' = [userTimezone EXCEPT ![o] = tz]
  /\ UNCHANGED <<now, interval, reminders, reminder_schedule,
                 processedReminders, sched, remind, del, bulk, sent, deleted,
                 faults, calc, reschedule, tzCmd, signal>>

(***************************************************************************)
(* Setting the timezone: bot.command('timezone') of index.js,              *)
(* timezoneCommandHandler and detectTimezone of messageHandler.js,         *)
(* validateTimezone of services/openai.js                                  *)
(***************************************************************************)

\* a string that names no zone of the timezone database
NoSuchZone == "Europa/Warsaw"

\* what a chat or the language model can give as a zone
ZoneInputs == Zones \cup {NoSuchZone}

\* DateTime.now().setZone(timezone).isValid
isValid(timezone) == timezone \in Zones

\* what the language model can answer to validateTimezone
Validations ==
  [isValid : BOOLEAN, suggestedTimezone : ZoneInputs \cup {NoTz}]

\* what the language model can answer to detectTimezone
Detections ==
  [hasTimezoneInfo : BOOLEAN, timezone : ZoneInputs \cup {NoTz},
   confident : BOOLEAN]

\* validateTimezone: try { DateTime.now().setZone(suggestedTimezone) }
\* catch { isValid = false }.  setZone does not throw for a zone it does
\* not know (it returns an invalid DateTime), so the answer of the
\* language model is returned as it is
validateTimezone(result) == result

\* bot.command('timezone') of index.js: the zone is checked with luxon;
\* an invalid one is rejected, a valid one goes to saveUserTimezone
timezoneIndex ==
  /\ tzCmd.pc = "idle"
  /\ commands < MaxCommands
  /\ commands' = commands + 1
  /\ \E o \in Owners, timezone \in ZoneInputs :
       tzCmd' = IF ~isValid(timezone)
                THEN [pc |-> "idle", reply |-> "invalid"]
                ELSE [pc |-> "set", reply |-> "none", chatId |-> o,
                      timezone |-> timezone, validated |-> TRUE]
  /\ UNCHANGED <<now, interval, reminders, reminder_schedule, userTimezone,
                 processedReminders, sched, remind, del, bulk, sent, deleted,
                 faults, calc, reschedule, signal>>

\* timezoneCommandHandler of messageHandler.js: validateTimezone answers;
\* !validation.isValid || !validation.suggestedTimezone is rejected, the
\* rest goes to saveUserTimezone
timezoneCommandHandler ==
  /\ tzCmd.pc = "idle"
  /\ commands < MaxCommands
  /\ commands' = commands + 1
  /\ \E o \in Owners, result \in Validations :
       tzCmd' = IF \/ ~validateTimezone(result).isValid
                   \/ validateTimezone(result).suggestedTimezone = NoTz
                THEN [pc |-> "idle", reply |-> "invalid"]
                ELSE [pc |-> "set", reply |-> "none", chatId |-> o,
                      timezone |-> validateTimezone(result).suggestedTimezone,
                      validated |-> FALSE]
  /\ UNCHANGED <<now, interval, reminders, reminder_schedule, userTimezone,
                 processedReminders, sched, remind, del, bulk, sent, deleted,
                 faults, calc, reschedule, signal>>

\* detectTimezone of messageHandler.js: the language model answers;
\* result.hasTimezoneInfo && result.timezone && result.confidence > 0.7
\* goes to saveUserTimezone, anything else yields null
detectTimezone ==
  /\ tzCmd.pc = "idle"
  /\ commands < MaxCommands
  /\ commands' = commands + 1
  /\ \E o \in Owners, result \in Detections :
       tzCmd' = IF result.hasTimezoneInfo /\ result.timezone # NoTz
                   /\ result.confident
                THEN [pc |-> "set", reply |-> "none", chatId |-> o,
                      timezone |-> result.timezone, validated |-> FALSE]
                ELSE [pc |-> "idle", reply |-> "undetected"]
  /\ UNCHANGED <<now, interval, reminders, reminder_schedule, userTimezone,
                 processedReminders, sched, remind, del, bulk, sent, deleted,
                 faults, calc, reschedule, signal>>

\* saveUserTimezone: the SET of user:<userId>:timezone answers; a failure
\* is logged and answered with false, which no caller looks at
saveUserTimezone ==
  /\ tzCmd.pc = "set"
  /\ \E ok \in Replies :
       IF ok
       THEN /\ userTimezone' =
                 [userTimezone EXCEPT ![tzCmd.chatId] = tzCmd.timezone]
            /\ UNCHANGED faults
       ELSE /\ faults' = faults + 1
            /\ UNCHANGED userTimezone
  /\ tzCmd' = [pc |-> "idle", reply |-> "set"]
  /\ UNCHANGED <<now, interval, reminders, reminder_schedule,
                 processedReminders, sched, remind, del, bulk, commands, sent,
                 deleted, calc, reschedule, signal>>

(***************************************************************************)
(* index.js bot.action(/update_tz_(.+)/), action 'all'                     *)
(***************************************************************************)

\* Object.entries(reminders) of HGETALL reminders:<chatId>
RECURSIVE EntriesOf(_, _)
EntriesOf(hash, ids) ==
  IF ids = {} THEN <<>>
  ELSE LET id == CHOOSE i \in ids : \A j \in ids : i <= j
       IN <<[reminderId |-> id, reminder |-> hash[id]]>>
            \o EntriesOf(hash, ids \ {id})

hGetAll(hash, chatId) ==
  EntriesOf([id \in {k[2] : k \in {x \in DOMAIN hash : x[1] = chatId}}
               |-> hash[<<chatId, id>>]],
            {k[2] : k \in {x \in DOMAIN hash : x[1] = chatId}})

\* reminder.timezone = chatTimezone; calculateNextRun(reminder)
retimed(entry, chatTimezone) ==
  [entry.reminder EXCEPT !.timezone = chatTimezone]

\* the for loop of the action from its top to the next HSET it issues:
\* set the timezone, recalculate, skip the reminders whose next run is null
nextToUpdate(chatId, chatTimezone, todo, updatedCount, t) ==
  LET live == {i \in 1..Len(todo) :
                 calculateNextRun(retimed(todo[i], chatTimezone), t) # Null}
  IN IF live = {}
     THEN [pc |-> "idle", result |-> "done", updatedCount |-> updatedCount]
     ELSE LET i == CHOOSE x \in live : \A y \in live : x <= y
              reminder == retimed(todo[i], chatTimezone)
              nextRun == calculateNextRun(reminder, t)
          \* nextRun.toISOString() of an Invalid Date throws
          IN IF nextRun = Invalid
             THEN [pc |-> "idle", result |-> "error",
                   updatedCount |-> updatedCount]
             ELSE [pc |-> "hSet", result |-> "none", chatId |-> chatId,
                   chatTimezone |-> chatTimezone,
                   updatedCount |-> updatedCount,
                   reminderId |-> todo[i].reminderId,
                   reminder |-> [reminder EXCEPT
                                   !.nextRun = toISOString(nextRun)],
                   nextRun |-> nextRun,
                   todo |-> SubSeq(todo, i + 1, Len(todo))]

\* the button is pressed in chat o; getUserTimezone(chatId) answers
updateTzAction ==
  /\ bulk.pc = "idle"
  /\ commands < MaxCommands
  /\ commands' = commands + 1
  /\ \E o \in Owners :
       bulk' = [pc |-> "hGetAll", result |-> "none", chatId |-> o,
                chatTimezone |-> userTimezone[o]]
  /\ UNCHANGED <<now, interval, reminders, reminder_schedule, userTimezone,
                 processedReminders, sched, remind, del, sent, deleted,
                 faults, calc, reschedule, tzCmd, signal>>

\* HGETALL answers, then one Redis reply at a time for each reminder:
\* HSET, ZREM, ZADD
updateTzAll ==
  /\ bulk.pc \in {"hGetAll", "hSet", "zRem", "zAdd"}
  /\ \E ok \in Replies :
       IF ~ok
       THEN /\ bulk' = [pc |-> "idle", result |-> "error",
                        updatedCount |-> 0]
            /\ faults' = faults + 1
            /\ UNCHANGED <<reminders, reminder_schedule>>
       ELSE
         /\ UNCHANGED faults
         /\ CASE bulk.pc = "hGetAll" ->
                 /\ bulk' = nextToUpdate(bulk.chatId, bulk.chatTimezone,
                                         hGetAll(reminders, bulk.chatId),
                                         0, now)
                 /\ UNCHANGED <<reminders, reminder_schedule>>
              [] bulk.pc = "hSet" ->
                 /\ reminders' = Put(reminders,
                                     <<bulk.chatId, bulk.reminderId>>,
                                     bulk.reminder)
                 /\ bulk' = [bulk EXCEPT !.pc = "zRem"]
                 /\ UNCHANGED reminder_schedule
              [] bulk.pc = "zRem" ->
                 /\ reminder_schedule' =
                      Remove(reminder_schedule,
                             <<bulk.chatId, bulk.reminderId>>)
                 /\ bulk' = [bulk EXCEPT !.pc = "zAdd"]
                 /\ UNCHANGED reminders
              [] bulk.pc = "zAdd" ->
                 /\ reminder_schedule' =
                      Put(reminder_schedule,
                          <<bulk.chatId, bulk.reminderId>>, bulk.nextRun)
                 /\ bulk' = nextToUpdate(bulk.chatId, bulk.chatTimezone,
                                         bulk.todo, bulk.updatedCount + 1,
                                         now)
                 /\ UNCHANGED reminders
  /\ UNCHANGED <<now, interval, userTimezone, processedReminders, sched,
                 remind, del, commands, sent, deleted, calc, reschedule,
                 tzCmd, signal>>

(***************************************************************************)
(* The program                                                             *)
(***************************************************************************)

Next ==
  \/ Tick
  \/ processReminders
  \/ getDueRemindersRange
  \/ getDueRemindersGet
  \/ forEntry
  \/ sendMessage
  \/ updateReminderNextRun
  \/ deleteReminder
  \/ finally
  \/ remindCommandHandler
  \/ remindAnalyzed
  \/ saveReminder
  \/ deleteArrives
  \/ deleteCommand
  \/ deleteAction
  \/ timezoneCommand
  \/ updateTzAction
  \/ updateTzAll

Spec == Init /\ [][Next]_vars

(***************************************************************************)
(* Creation with messages for several days of the week                     *)
(***************************************************************************)

CreateNext ==
  \/ Tick
  \/ remindCommandHandler
  \/ remindMultipleDays
  \/ remindInvalidSchedule
  \/ remindOnce
  \/ remindAnalyzed
  \/ saveReminder
  \/ rescheduleOffer
  \/ rescheduleAction
  \/ rescheduleGet
  \/ rescheduleDel

CreateSpec == Init /\ [][CreateNext]_vars

(***************************************************************************)
(* Setting the timezone                                                    *)
(***************************************************************************)

TimezoneNext ==
  \/ Tick
  \/ timezoneIndex
  \/ timezoneCommandHandler
  \/ detectTimezone
  \/ saveUserTimezone

TimezoneSpec == Init /\ [][TimezoneNext]_vars

(***************************************************************************)
(* The dispatch loop on its own, over reminders created before the         *)
(* process started                                                         *)
(***************************************************************************)

\* the reminder remindCommandHandler builds at instant t for a chat with
\* zone chatTimezone
createdReminder(message, schedule, chatTimezone, t) ==
  [message |-> message,
   schedule |-> schedule,
   nextRun |-> toISOString(getDateFromSchedule(schedule, chatTimezone, t)),
   createdAt |-> toISOString(t),
   timezone |-> chatTimezone]

\* "rent" on the 31st of each month at 14:00 UTC, created by chat 101 on
\* Saturday 2025-03-01 at 15:00 UTC
RentCreatedAt == fromObject(2025, 3, 1, 15, 0, "UTC")
RentMonthly ==
  createdReminder("rent", Schedule("monthly", <<14, 0>>, NoDate, 0, 31, 0),
                  "UTC", RentCreatedAt)

\* "standup" every Monday at 23:00 Tokyo time, created by chat 202 on
\* Tuesday 2025-03-25 at 23:30 Tokyo time
StandupCreatedAt == fromObject(2025, 3, 25, 23, 30, "Asia/Tokyo")
StandupWeekly ==
  createdReminder("standup", Schedule("weekly", <<23, 0>>, NoDate, 1, 0, 0),
                  "Asia/Tokyo", StandupCreatedAt)

\* "dentist" once on 2025-03-31 at 14:00 UTC, created by chat 101 on
\* Sunday 2025-03-30 at 12:00 UTC
DentistCreatedAt == fromObject(2025, 3, 30, 12, 0, "UTC")
DentistOnce ==
  createdReminder("dentist",
                  Schedule("once", <<14, 0>>, <<2025, 3, 31>>, 0, 0, 0),
                  "UTC", DentistCreatedAt)

\* "medicine" every day at 14:00 UTC, created by chat 101 on Friday
\* 2025-03-28 at 15:00 UTC; the process was down since, so the occurrences
\* of 29 and 30 March were missed
MedicineCreatedAt == fromObject(2025, 3, 28, 15, 0, "UTC")
MedicineMissed ==
  createdReminder("medicine", Schedule("daily", <<14, 0>>, NoDate, 0, 0, 0),
                  "UTC", MedicineCreatedAt)

\* what Redis holds when the process starts
DispatchStores ==
  { [k \in {<<"101", RentCreatedAt>>} |-> RentMonthly],
    [k \in {<<"101", DentistCreatedAt>>, <<"202", StandupCreatedAt>>} |->
       IF k[1] = "101" THEN DentistOnce ELSE StandupWeekly],
    [k \in {<<"101", MedicineCreatedAt>>, <<"202", StandupCreatedAt>>} |->
       IF k[1] = "101" THEN MedicineMissed ELSE StandupWeekly] }

DispatchInit ==
  /\ now = StartTime
  /\ interval \in CheckIntervals
  /\ reminders \in DispatchStores
  /\ reminder_schedule =
       [k \in DOMAIN reminders |-> DateParse(reminders[k].nextRun)]
  /\ userTimezone = [o \in Owners |-> IF o = "202" THEN "Asia/Tokyo"
                                      ELSE "UTC"]
  /\ processedReminders = <<>>
  /\ sched = IdleSched(StartTime)
  /\ remind = IdleRemind
  /\ del = IdleDel
  /\ bulk = IdleBulk
  /\ commands = 0
  /\ sent = <<>>
  /\ deleted = {}
  /\ faults = 0
  /\ calc = NoCalc
  /\ reschedule = <<>>
  /\ tzCmd = IdleTz
  /\ signal = "none"

DispatchNext ==
  \/ Tick
  \/ processReminders
  \/ getDueRemindersRange
  \/ getDueRemindersGet
  \/ forEntry
  \/ sendMessage
  \/ updateReminderNextRun
  \/ deleteReminder
  \/ finally

DispatchSpec == DispatchInit /\ [][DispatchNext]_vars

\* the steps of the loop: the timer firing and the replies of Redis and
\* Telegram arriving
DispatchLoop ==
  \/ processReminders
  \/ getDueRemindersRange
  \/ getDueRemindersGet
  \/ forEntry
  \/ sendMessage
  \/ updateReminderNextRun
  \/ deleteReminder
  \/ finally

\* time passes, a timer that is due fires and every awaited call settles
FairDispatchSpec ==
  DispatchSpec /\ WF_vars(Tick) /\ WF_vars(DispatchLoop)

(***************************************************************************)
(* The dispatch loop and the deletions over a longer time                  *)
(***************************************************************************)

\* eleven minutes
QuietTime == RetentionWindow + SecondsPerMinute

\* eleven minutes go by in which no command arrives and every pass finds
\* nothing due, so that each of them only re-arms the timer
Quiet ==
  /\ now <= StartTime + MaxClockSteps * ClockStep
  /\ sched.pc = "idle"
  /\ HandlersIdle
  /\ \A k \in DOMAIN reminder_schedule :
       reminder_schedule[k] > now + QuietTime
  /\ now' = now + QuietTime
  /\ UNCHANGED <<interval, reminders, reminder_schedule, userTimezone,
                 processedReminders, sched, remind, del, bulk, commands, sent,
                 deleted, faults, calc, reschedule, tzCmd, signal>>

EvictionNext ==
  \/ Tick
  \/ Quiet
  \/ processReminders
  \/ getDueRemindersRange
  \/ getDueRemindersGet
  \/ forEntry
  \/ sendMessage
  \/ updateReminderNextRun
  \/ deleteReminder
  \/ finally
  \/ deleteArrives
  \/ deleteCommand
  \/ deleteAction

EvictionSpec == DispatchInit /\ [][EvictionNext]_vars

(***************************************************************************)
(* The dispatch loop beside the bulk update of the timezone                *)
(***************************************************************************)

\* Redis holds the once reminder of chat 101 and the weekly one of chat 202
RecoveryInit ==
  /\ DispatchInit
  /\ <<"101", DentistCreatedAt>> \in DOMAIN reminders

RecoveryNext ==
  \/ Tick
  \/ processReminders
  \/ getDueRemindersRange
  \/ getDueRemindersGet
  \/ forEntry
  \/ sendMessage
  \/ updateReminderNextRun
  \/ deleteReminder
  \/ finally
  \/ updateTzAction
  \/ updateTzAll

RecoverySpec == RecoveryInit /\ [][RecoveryNext]_vars

\* time passes, a timer that is due fires and every call the loop awaits
\* settles
FairRecoverySpec ==
  RecoverySpec /\ WF_vars(Tick) /\ WF_vars(DispatchLoop)

(***************************************************************************)
(* The dispatch loop and the shutdown signal                               *)
(***************************************************************************)

\* process.once('SIGINT', () => bot.stop('SIGINT')), and the same for
\* SIGTERM: the bot stops receiving updates; the handler does nothing else
stop ==
  /\ signal = "none"
  /\ \E reason \in {"SIGINT", "SIGTERM"} : signal' = reason
  /\ UNCHANGED <<now, interval, reminders, reminder_schedule, userTimezone,
                 processedReminders, sched, remind, del, bulk, commands,
                 sent, deleted, faults, calc, reschedule, tzCmd>>

ShutdownNext ==
  \/ Tick
  \/ stop
  \/ processReminders
  \/ getDueRemindersRange
  \/ getDueRemindersGet
  \/ forEntry
  \/ sendMessage
  \/ updateReminderNextRun
  \/ deleteReminder
  \/ finally

ShutdownSpec == DispatchInit /\ [][ShutdownNext]_vars

(***************************************************************************)
(* The next-run calculators on their own                                   *)
(***************************************************************************)

\* local dates and times of day (hour, minute, second) of DateTime.now()
CalcDates ==
  {<<2024, 2, 29>>, <<2025, 1, 31>>, <<2025, 3, 10>>, <<2025, 3, 31>>,
   <<2025, 4, 2>>, <<2025, 4, 30>>, <<2025, 12, 31>>}

CalcClock ==
  {<<0, 0, 0>>, <<13, 59, 59>>, <<14, 0, 0>>, <<14, 0, 30>>, <<15, 0, 0>>,
   <<23, 59, 59>>}

CalcInstants ==
  {fromObject(d[1], d[2], d[3], c[1], c[2], "UTC") + c[3] :
     d \in CalcDates, c \in CalcClock}

\* schedule.time of the schedules
CalcTimes == {<<0, 0>>, <<14, 0>>}

CalcDaysOfMonth == {1, 15, 30, 31}

CalcOnceDates == {<<2025, 3, 9>>, <<2025, 3, 31>>, <<2025, 4, 1>>}

CalcRelativeMinutes == {1, 5}

CalcSchedules ==
  {Schedule("daily", time, NoDate, 0, 0, 0) : time \in CalcTimes}
    \cup {Schedule("weekly", time, NoDate, dayOfWeek, 0, 0) :
            time \in CalcTimes, dayOfWeek \in 0..6}
    \cup {Schedule("monthly", time, NoDate, 0, dayOfMonth, 0) :
            time \in CalcTimes, dayOfMonth \in CalcDaysOfMonth}
    \cup {Schedule("once", time, date, 0, 0, 0) :
            time \in CalcTimes, date \in CalcOnceDates}
    \cup {Schedule("once", time, NoDate, 0, 0, relativeMinutes) :
            time \in CalcTimes, relativeMinutes \in CalcRelativeMinutes}

\* one schedule, one zone and one instant for Date.now(); nothing else runs
CalcInit ==
  /\ now \in CalcInstants
  /\ calc \in [pc : {"input"}, schedule : CalcSchedules, timezone : Zones,
               nextRun : {Null}]
  /\ interval = DefaultCheckInterval
  /\ reminders = <<>>
  /\ reminder_schedule = <<>>
  /\ userTimezone = [o \in Owners |-> "UTC"]
  /\ processedReminders = <<>>
  /\ sched = IdleSched(now)
  /\ remind = IdleRemind
  /\ del = IdleDel
  /\ bulk = IdleBulk
  /\ commands = 0
  /\ sent = <<>>
  /\ deleted = {}
  /\ faults = 0
  /\ reschedule = <<>>
  /\ tzCmd = IdleTz
  /\ signal = "none"

\* calculateNextRun(reminder) of a reminder with the schedule and the zone
applyCalculateNextRun ==
  /\ calc.pc = "input"
  /\ calc' = [calc EXCEPT
                !.pc = "calculateNextRun",
                !.nextRun = calculateNextRun([schedule |-> calc.schedule,
                                              timezone |-> calc.timezone],
                                             now)]
  /\ UNCHANGED <<now, interval, reminders, reminder_schedule, userTimezone,
                 processedReminders, sched, remind, del, bulk, commands,
                 sent, deleted, faults, reschedule, tzCmd, signal>>

\* getDateFromSchedule(schedule, userTimezone)
applyGetDateFromSchedule ==
  /\ calc.pc = "input"
  /\ calc' = [calc EXCEPT
                !.pc = "getDateFromSchedule",
                !.nextRun = getDateFromSchedule(calc.schedule, calc.timezone,
                                                now)]
  /\ UNCHANGED <<now, interval, reminders, reminder_schedule, userTimezone,
                 processedReminders, sched, remind, del, bulk, commands,
                 sent, deleted, faults, reschedule, tzCmd, signal>>

CalcNext ==
  \/ applyCalculateNextRun
  \/ applyGetDateFromSchedule

CalcSpec == CalcInit /\ [][CalcNext]_vars

(***************************************************************************)
(* Properties                                                              *)
(***************************************************************************)

Recurring == {"daily", "weekly", "monthly"}

\* the entry the loop handled last, once it is through with it
Handled == sched.last.kind = "done"

lastKey == <<sched.last.userId, sched.last.reminderId>>

\* the record of key k and its index entry agree
InSync(k) ==
  /\ k \in DOMAIN reminder_schedule
  /\ reminder_schedule[k] = DateParse(reminders[k].nextRun)

\* C1: for a reminder (owner, id) and a one-minute bucket, the loop invokes
\* the delivery at most once, however many passes see the entry as due in
\* that bucket
C1_DispatchIdempotence == \A occurrence \in DOMAIN sent : sent[occurrence] <= 1

\* a pass has met, still due, an entry that was delivered in this bucket
C1_SeenAgainInBucket ==
  /\ sched.last.kind = "skipped"
  /\ <<sched.last.userId, sched.last.reminderId,
       minuteBucket(sched.last.currentTime)>> \in DOMAIN sent

\* C2: when the delivery of a due entry fails, the loop still calls the
\* next-run calculator for the entry and then updates or deletes it in the
\* same pass
C2_FailedDeliveryReschedules ==
  (Handled /\ sched.last.delivery = "failed")
    => /\ sched.last.calcCalled
       /\ sched.last.store \in {"updated", "deleted"}

\* C3: the delivery of a due entry is made to the owner of the index entry
\* with the reminder's text, and the update or delete that follows uses the
\* same owner and id
C3_DeliveryToOwner ==
  sched.cur.kind = "entry"
    => /\ sched.cur.sentTo = sched.cur.userId
       /\ sched.cur.sentText = sched.cur.reminder.message
       /\ sched.cur.chatId = sched.cur.userId

\* C4: once the loop has fired a one-time reminder and its deleteReminder
\* has returned, neither the record nor the index entry of the reminder
\* exists
C4_OneTimeDeletedAfterFiring ==
  (/\ Handled
   /\ sched.last.reminder.schedule.frequency = "once"
   /\ sched.last.delivery = "ok"
   /\ sched.last.store = "deleted")
    => /\ lastKey \notin DOMAIN reminders
       /\ lastKey \notin DOMAIN reminder_schedule

\* C5: once the loop has fired a recurring reminder, the record's nextRun
\* and the index key both equal the instant calculateNextRun returned, and
\* that instant is after the pass's poll time
C5_RecurringRestamped ==
  (/\ Handled
   /\ sched.last.reminder.schedule.frequency \in Recurring
   /\ sched.last.delivery = "ok")
    => /\ lastKey \in DOMAIN reminders
       /\ InSync(lastKey)
       /\ reminder_schedule[lastKey] = sched.last.calc
       /\ sched.last.calc > sched.dueNow

\* no mutation of the store is between its first write and its last, and
\* none was cut short by a failed command
Quiescent ==
  /\ remind.pc # "zAdd"
  /\ del.pc \notin {"zRem", "zRemAction"}
  /\ bulk.pc \notin {"zRem", "zAdd"}
  /\ sched.pc \notin {"u_zRem", "u_zAdd", "d_zRem"}
  /\ faults = 0

\* C6: after every completed mutation each record has its index entry,
\* keyed at the record's nextRun, and every index entry has its record
C6_IndexRecordConsistency ==
  Quiescent
    => /\ DOMAIN reminder_schedule = DOMAIN reminders
       /\ \A k \in DOMAIN reminders : InSync(k)

\* the record of key k carries the nextRun an update still in flight wrote
UpdateWritten(k) ==
  \/ /\ bulk.pc \in {"zRem", "zAdd"}
     /\ k = <<bulk.chatId, bulk.reminderId>>
     /\ reminders[k].nextRun = bulk.reminder.nextRun
  \/ /\ sched.pc \in {"u_zRem", "u_zAdd"}
     /\ k = <<sched.cur.chatId, sched.cur.reminderId>>
     /\ reminders[k].nextRun = sched.upd.nextRun

\* C7: in no reachable state does a record carry the nextRun of an update
\* while its index entry is missing or keyed at another instant
C7_UpdateAtomic ==
  \A k \in DOMAIN reminders : UpdateWritten(k) => InSync(k)

\* C8: updateReminderNextRun of a reminder whose record does not exist
\* fails with 'Reminder not found' and changes neither the records nor the
\* index
C8_UpdateOfMissingRecord ==
  [][(/\ sched.pc = "u_hGet"
      /\ sched' # sched
      /\ faults' = faults
      /\ <<sched.cur.chatId, sched.cur.reminderId>> \notin DOMAIN reminders)
       => /\ sched'.last.store = "notfound"
          /\ reminders' = reminders
          /\ reminder_schedule' = reminder_schedule]_vars

\* an update was called for a record that does not exist
C8_UpdateCalledOnMissing ==
  /\ Handled
  /\ sched.last.store = "notfound"
  /\ <<sched.last.chatId, sched.last.reminderId>> \notin DOMAIN reminders

\* C9: after a delete has reported success for (owner, id), the record and
\* the index entry of that reminder do not reappear
C9_DeleteIsFinal ==
  \A k \in deleted : k \notin DOMAIN reminders
                     /\ k \notin DOMAIN reminder_schedule

\* C10: a delete of an id that is not among the owner's reminders reports
\* not-found and changes nothing; a delete of an existing id removes the
\* record, then the index entry, and only then reports success
C10_DeleteOkOrNotFound ==
  [][/\ (del.pc \in {"hExists", "hDelAction"} /\ del' # del
                                              /\ faults' = faults)
          => IF <<del.chatId, del.reminderId>> \in DOMAIN reminders
             THEN del'.pc \in {"hDel", "zRemAction"}
             ELSE /\ del'.pc = "idle"
                  /\ del'.result = "notfound"
                  /\ reminders' = reminders
                  /\ reminder_schedule' = reminder_schedule
     /\ (del.pc \in {"hDel", "hDelAction"} /\ del' # del
                                           /\ faults' = faults)
          => <<del.chatId, del.reminderId>> \notin DOMAIN reminders'
     /\ (del.pc \in {"zRem", "zRemAction"} /\ del' # del
                                           /\ faults' = faults)
          => /\ <<del.chatId, del.reminderId>>
                  \notin DOMAIN reminder_schedule'
             /\ del'.result = "ok"
     /\ (del' # del /\ del'.result = "ok")
          => del.pc \in {"zRem", "zRemAction"}]_vars

\* a delete has removed a reminder and a later one found nothing to delete
C10_DeletedThenNotFound ==
  /\ deleted # {}
  /\ del.pc = "idle"
  /\ del.result = "notfound"

\* C11: getDueReminders takes every index entry whose score is <= now, in
\* ascending order of score, returns each of them that is still in the
\* index when its record is read, and removes nothing from the index or
\* the records
C11_DueEntries ==
  [][/\ (sched.pc = "zRangeByScore" /\ sched'.pc \in {"hGet", "for"})
          => /\ {sched'.keys[i] : i \in DOMAIN sched'.keys}
                  = {k \in DOMAIN reminder_schedule :
                       reminder_schedule[k] <= sched.dueNow}
             /\ \A i, j \in DOMAIN sched'.keys :
                  i < j => reminder_schedule[sched'.keys[i]]
                             <= reminder_schedule[sched'.keys[j]]
             /\ reminders' = reminders
             /\ reminder_schedule' = reminder_schedule
     /\ (sched.pc = "hGet" /\ sched' # sched
                            /\ sched'.pc \in {"hGet", "for"})
          => /\ reminders' = reminders
             /\ reminder_schedule' = reminder_schedule
             /\ (HandlersIdle /\ Head(sched.keys) \in DOMAIN reminder_schedule)
                  => /\ Len(sched'.due) = Len(sched.due) + 1
                     /\ sched'.due[Len(sched'.due)].userId
                          = Head(sched.keys)[1]
                     /\ sched'.due[Len(sched'.due)].reminderId
                          = Head(sched.keys)[2]]_vars

\* C12: the id saveReminder takes is not the id of an existing reminder of
\* the owner, so its HSET overwrites no record and its ZADD re-keys no
\* index entry; when it returns, the record and the index entry exist
C12_FreshId ==
  [][/\ (remind.pc = "hSet" /\ remind'.pc = "zAdd")
          => /\ <<remind.chatId, remind.id>> \notin DOMAIN reminders
             /\ <<remind.chatId, remind.id>> \in DOMAIN reminders'
     /\ (remind.pc = "zAdd" /\ remind' # remind /\ faults' = faults)
          => /\ <<remind.chatId, remind.id>> \notin DOMAIN reminder_schedule
             /\ <<remind.chatId, remind.id>> \in DOMAIN reminder_schedule']_vars

\* C13: when the handler of a message for n distinct days has saved its
\* last reminder, the owner has for each of the days a reminder with
\* frequency weekly and that day, whose index entry is keyed at its nextRun,
\* on that day of the week; no reminder has frequency multiple_days
C13_MultipleDays ==
  [][(/\ remind.pc = "zAdd"
      /\ remind.analysis.schedule.frequency = "multiple_days"
      /\ remind.days = <<>>
      /\ remind'.pc = "idle"
      /\ faults' = faults)
       => /\ \A i \in DOMAIN remind.analysis.schedule.daysOfWeek :
               \E k \in DOMAIN reminders' :
                 /\ k[1] = remind.chatId
                 /\ reminders'[k].message = remind.analysis.message
                 /\ reminders'[k].schedule.frequency = "weekly"
                 /\ reminders'[k].schedule.dayOfWeek
                      = remind.analysis.schedule.daysOfWeek[i]
                 /\ k \in DOMAIN reminder_schedule'
                 /\ reminder_schedule'[k]
                      = DateParse(reminders'[k].nextRun)
                 /\ currentDayOf(LocalFields(reminder_schedule'[k],
                                             reminders'[k].timezone))
                      = remind.analysis.schedule.daysOfWeek[i]
          /\ \A k \in DOMAIN reminders' :
               reminders'[k].schedule.frequency # "multiple_days"]_vars

\* a calculator has been applied to the schedule, the zone and now
Calculated == calc.pc \in {"calculateNextRun", "getDateFromSchedule"}

\* the instant of the schedule's time on the local day of now
TodayAtTime ==
  ((now + ZoneOffset(calc.timezone)) \div SecondsPerDay) * SecondsPerDay
    - ZoneOffset(calc.timezone)
    + calc.schedule.hour * 3600 + calc.schedule.minute * 60

\* C14: for a daily schedule both calculators give today at the time when
\* now is before it, and tomorrow at the time when now is at or after it
C14_Daily ==
  (Calculated /\ calc.schedule.frequency = "daily")
    => calc.nextRun = IF now < TodayAtTime THEN TodayAtTime
                      ELSE TodayAtTime + SecondsPerDay

\* calculateNextRun was applied to a daily schedule at its very time
C14_DailyAtItsTime ==
  /\ calc.pc = "calculateNextRun"
  /\ calc.schedule.frequency = "daily"
  /\ now = TodayAtTime
  /\ calc.nextRun = now + SecondsPerDay

\* C15: for a weekly schedule both calculators give an instant on the
\* schedule's day of the week that is after now and at most 7 days and 24
\* hours after now
C15_Weekly ==
  (Calculated /\ calc.schedule.frequency = "weekly")
    => /\ currentDayOf(LocalFields(calc.nextRun, calc.timezone))
            = calc.schedule.dayOfWeek
       /\ calc.nextRun > now
       /\ calc.nextRun - now <= 8 * SecondsPerDay

\* the local date and time of now in the zone of the schedule
CalcLocal == LocalFields(now, calc.timezone)

\* the schedule's day and time in the given month of the given year
DayOfMonthAt(year, month, day) ==
  fromObject(year, month, day, calc.schedule.hour, calc.schedule.minute,
             calc.timezone)

\* the schedule's dayOfMonth at its time in the current local month
ThisMonthCandidate ==
  DayOfMonthAt(CalcLocal.year, CalcLocal.month, calc.schedule.dayOfMonth)

\* that day exists in the current month and is still to come
UseThisMonth == ThisMonthCandidate # Invalid /\ ThisMonthCandidate > now

\* the month the next run belongs to: the current one, or the following
\* one with the year incremented after December
TargetMonth ==
  IF UseThisMonth THEN [year |-> CalcLocal.year, month |-> CalcLocal.month]
  ELSE IF CalcLocal.month = 12
  THEN [year |-> CalcLocal.year + 1, month |-> 1]
  ELSE [year |-> CalcLocal.year, month |-> CalcLocal.month + 1]

\* C16: when the target month has fewer days than dayOfMonth, both
\* calculators give the last day of that month at the schedule's time
C16_MonthlyClamp ==
  (/\ Calculated
   /\ calc.schedule.frequency = "monthly"
   /\ DaysInMonth(TargetMonth.year, TargetMonth.month)
        < calc.schedule.dayOfMonth)
    => calc.nextRun = DayOfMonthAt(TargetMonth.year, TargetMonth.month,
                                   DaysInMonth(TargetMonth.year,
                                               TargetMonth.month))

\* C17: for a monthly schedule whose dayOfMonth exists in the current
\* month both calculators give that day at the time in the current month
\* when it is after now, and otherwise that day at the time in the
\* following month (when that month has the day)
C17_Monthly ==
  (/\ Calculated
   /\ calc.schedule.frequency = "monthly"
   /\ ThisMonthCandidate # Invalid
   /\ calc.schedule.dayOfMonth
        <= DaysInMonth(TargetMonth.year, TargetMonth.month))
    => calc.nextRun = DayOfMonthAt(TargetMonth.year, TargetMonth.month,
                                   calc.schedule.dayOfMonth)

\* the instant of a once schedule's date and time in the zone
OnceInstant ==
  DayOfMonthAt(calc.schedule.date[1], calc.schedule.date[2],
               calc.schedule.date[3])

\* C18: for a once schedule with a date both calculators give the instant
\* of the date and time in the zone when it is after now, and null
\* otherwise
C18_Once ==
  (/\ Calculated
   /\ calc.schedule.frequency = "once"
   /\ calc.schedule.date # NoDate)
    => calc.nextRun = IF OnceInstant > now THEN OnceInstant ELSE Null

\* a relative reminder's nextRun is its instant of analysis plus
\* relativeMinutes minutes
RelativeNextRun(reminder) ==
  DateParse(reminder.nextRun)
    = DateParse(reminder.createdAt) + reminder.schedule.relativeMinutes * 60

\* C19: a stored relative reminder has nextRun = T + m minutes, T the
\* instant it was analysed at, whatever its zone; and once the loop has
\* delivered it, no Redis command having failed, its record and its index
\* entry are gone
C19_Relative ==
  /\ \A k \in DOMAIN reminders :
       reminders[k].schedule.isRelative => RelativeNextRun(reminders[k])
  /\ (/\ Handled
      /\ sched.last.reminder.schedule.isRelative
      /\ sched.last.delivery = "ok"
      /\ faults = 0)
       => /\ lastKey \notin DOMAIN reminders
          /\ lastKey \notin DOMAIN reminder_schedule

\* the keys of the reminders of one chat in a hash
OwnedBy(hash, chatId) == {k \in DOMAIN hash : k[1] = chatId}

\* C20: when the update of all reminders of a chat completes, with no
\* other handler and no pass of the loop in flight and no Redis command
\* having failed, every reminder of the
\* chat has the chat's zone, its index entry equals its nextRun, and the
\* count reported is the number of reminders the chat has
C20_BulkRetimezone ==
  [][(/\ bulk.pc # "idle"
      /\ bulk'.pc = "idle"
      /\ bulk'.result = "done"
      /\ remind.pc = "idle"
      /\ del.pc = "idle"
      /\ sched.pc = "idle"
      /\ faults' = 0)
       => /\ \A k \in OwnedBy(reminders', bulk.chatId) :
               /\ reminders'[k].timezone = bulk.chatTimezone
               /\ k \in DOMAIN reminder_schedule'
               /\ reminder_schedule'[k] = DateParse(reminders'[k].nextRun)
          /\ bulk'.updatedCount
               = Cardinality(OwnedBy(reminders', bulk.chatId))]_vars

\* C21: a step of the dispatch loop, of a delete or of /timezone (any step
\* that is not one of the bulk timezone update or of a creation) leaves
\* the timezone of every reminder that stays in the store as it was
C21_TimezoneImmutable ==
  [][(bulk' = bulk /\ remind' = remind)
       => \A k \in DOMAIN reminders \cap DOMAIN reminders' :
            reminders'[k].timezone = reminders[k].timezone]_vars

\* the loop has delivered a reminder whose owner has changed the saved
\* timezone since the reminder was created
C21_FiredAfterTimezoneChange ==
  /\ Handled
  /\ sched.last.delivery = "ok"
  /\ lastKey \in DOMAIN reminders
  /\ reminders[lastKey].timezone # userTimezone[lastKey[1]]

\* the fields of a schedule are in range: a 24-hour time, dayOfWeek in
\* 0..6 when weekly, dayOfMonth in 1..31 when monthly, a calendar date
\* when once with a date
ValidSchedule(schedule) ==
  /\ schedule.hour \in 0..23
  /\ schedule.minute \in 0..59
  /\ schedule.frequency = "weekly" => schedule.dayOfWeek \in 0..6
  /\ schedule.frequency = "monthly" => schedule.dayOfMonth \in 1..31
  /\ (schedule.frequency = "once" /\ schedule.date # NoDate)
       => /\ schedule.date[2] \in 1..12
          /\ schedule.date[3]
               \in 1..DaysInMonth(schedule.date[1], schedule.date[2])

\* C22: no reminder whose schedule is out of range is ever in the store,
\* neither as a record nor as an index entry
C22_InvalidScheduleRejected ==
  \A k \in DOMAIN reminder_schedule :
    k \in DOMAIN reminders => ValidSchedule(reminders[k].schedule)

\* the instant of the date and time of a once schedule in zone tz
OnceInstantOf(schedule, tz) ==
  fromObject(schedule.date[1], schedule.date[2], schedule.date[3],
             schedule.hour, schedule.minute, tz)

\* the analysis in the hands of /remind is a once schedule whose date and
\* time in the chat's zone are at or before now
ExpiredOnce ==
  /\ remind.pc = "analyze"
  /\ remind.analysis.schedule.frequency = "once"
  /\ ~remind.analysis.schedule.isRelative
  /\ remind.analysis.schedule.date # NoDate
  /\ OnceInstantOf(remind.analysis.schedule, remind.chatTimezone) # Invalid
  /\ OnceInstantOf(remind.analysis.schedule, remind.chatTimezone) <= now

\* C23: /remind with a once schedule at or before now adds no record and
\* no index entry and saves nothing: it only sets a reschedule key, which
\* expires; and every once reminder in the store has the next run of its
\* own date and time, none is moved to a later date
C23_ExpiredOnceNotStored ==
  [][/\ (ExpiredOnce /\ remind' # remind)
          => /\ remind'.pc = "set"
             /\ reminders' = reminders
             /\ reminder_schedule' = reminder_schedule
     /\ (remind.pc = "set" /\ remind' # remind)
          => /\ remind'.pc = "idle"
             /\ reminders' = reminders
             /\ reminder_schedule' = reminder_schedule
             /\ \A k \in DOMAIN reschedule' \ DOMAIN reschedule :
                  reschedule'[k].expiresAt = now + RescheduleExpiry
     /\ \A k \in DOMAIN reminders' :
          (/\ reminders'[k].schedule.frequency = "once"
           /\ reminders'[k].schedule.date # NoDate)
            => DateParse(reminders'[k].nextRun)
                 = OnceInstantOf(reminders'[k].schedule,
                                 reminders'[k].timezone)]_vars

\* an expired once schedule has left its reschedule key and nothing else
C23_OfferKept ==
  /\ remind.pc = "idle"
  /\ reschedule # <<>>
  /\ reminders = <<>>
  /\ reminder_schedule = <<>>

\* C24: the timezone saved for a chat is a zone of the timezone database,
\* whichever path saved it
C24_SavedTimezoneValid == \A o \in Owners : isValid(userTimezone[o])

\* C25: once the loop has handled a delivered reminder whose next run could
\* not be computed (an Invalid Date), the reminder is quarantined: its index
\* entry is gone and its record is still there
C25_Quarantined ==
  (/\ Handled
   /\ sched.last.delivery = "ok"
   /\ sched.last.calc = Invalid)
    => /\ <<sched.last.userId, sched.last.reminderId>>
            \notin DOMAIN reminder_schedule
       /\ <<sched.last.userId, sched.last.reminderId>> \in DOMAIN reminders

\* the loop is in the body of one entry
InEntry ==
  sched.pc \in {"sendMessage", "u_hGet", "u_hSet", "u_zRem", "u_zAdd",
                "d_hDel", "d_zRem"}

\* the entry handled last ended with a failed Redis command
StoreFailed == Handled /\ sched.last.store = "failed"

\* C26: once a Redis command of the pass has failed, the pass delivers no
\* further entry: the loop is in no entry's body while the entry before it
\* ended with a failed Redis command
C26_StoreFailureAborts == StoreFailed => ~InEntry

\* the entry handled last ended with an exception: a rejected delivery, a
\* failed Redis command, or an update that threw
EntryThrew ==
  /\ Handled
  /\ \/ sched.last.delivery = "failed"
     \/ sched.last.store \in {"failed", "notfound", "threw"}

\* C27: an exception in the body of one entry neither ends the pass nor
\* drops an entry of the snapshot: a step out of an entry's body leads to
\* the head of the loop with exactly the entries after this one left, the
\* pass ends only when none is left, and from the head of the loop the
\* next entry is taken up
C27_PartialFailureIsolation ==
  [][/\ (InEntry /\ sched' # sched)
          => \/ sched'.pc \in {"u_hGet", "u_hSet", "u_zRem", "u_zAdd",
                               "d_hDel", "d_zRem"}
                /\ sched'.due = sched.due
             \/ sched'.pc = "for" /\ sched'.due = Tail(sched.due)
     /\ (sched.pc = "for" /\ sched' # sched /\ sched.due # <<>>)
          => /\ sched'.pc \in {"for", "sendMessage"}
             /\ sched'.pc = "sendMessage" =>
                  /\ sched'.due = sched.due
                  /\ sched'.cur.reminderId = Head(sched.due).reminderId
             /\ sched'.pc = "for" =>
                  /\ sched'.due = Tail(sched.due)
                  /\ sched'.last.kind = "skipped"
     /\ (sched.pc = "for" /\ sched'.pc = "idle") => sched.due = <<>>]_vars

\* after an entry of the snapshot ended with an exception, the loop is in
\* the body of the next one
C27_NextEntryAfterException == EntryThrew /\ InEntry

\* a pass is polling while reminder k has a record and an index key <= now
PolledDue(k) ==
  /\ sched.pc = "zRangeByScore"
  /\ k \in DOMAIN reminders
  /\ k \in DOMAIN reminder_schedule
  /\ reminder_schedule[k] <= sched.dueNow

\* the loop has delivered reminder k to the chat that owns it
DeliveredToOwner(k) ==
  /\ Handled
  /\ <<sched.last.userId, sched.last.reminderId>> = k
  /\ sched.last.delivery = "ok"
  /\ sched.last.sentTo = k[1]

C29_WeeklyLifecycle ==
  (/\ Handled
   /\ sched.last.reminder.schedule.frequency = "weekly"
   /\ sched.last.delivery = "ok"
   /\ faults = 0)
    => /\ DateParse(sched.last.reminder.nextRun)
            = fromObject(2025, 3, 31, 23, 0, "Asia/Tokyo")
       /\ sched.last.calc = plusDays(DateParse(sched.last.reminder.nextRun), 7)
       /\ <<sched.last.userId, sched.last.reminderId>> \in DOMAIN reminders
       /\ DateParse(reminders[<<sched.last.userId,
                                sched.last.reminderId>>].nextRun)
            = plusDays(DateParse(sched.last.reminder.nextRun), 7)

\* C30: a pass that ends, however it ends, arms exactly one timer for
\* now + interval; a pass starts only from a timer that is due; a pass is
\* running exactly when no timer is pending, so no two passes run at once;
\* and every pass that has started comes back to idle
C30_PassAlwaysRearms ==
  /\ [](sched.timers = IF sched.pc = "idle" THEN 1 ELSE 0)
  /\ [][/\ (sched.pc # "idle" /\ sched'.pc = "idle")
             => /\ sched'.timerAt = now + interval
                /\ sched'.timers = sched.timers + 1
        /\ (sched.pc = "idle" /\ sched' # sched)
             => /\ sched'.pc = "zRangeByScore"
                /\ now >= sched.timerAt
        /\ interval' = interval
        /\ interval > 0]_vars
  /\ (sched.pc # "idle" ~> sched.pc = "idle")

\* a pass that a failed Redis command cut short has ended, and so has a
\* pass in which an entry ended with an exception
C30_IdleAfterAbort ==
  /\ sched.pc = "idle"
  /\ sched.timerAt = now + interval
  /\ faults > 0
  /\ sched.last = NoEntry

\* C31: every instant calculateNextRun returns for a daily, weekly or
\* monthly schedule is strictly after the now it was computed from
C31_StrictlyAfterNow ==
  (calc.pc = "calculateNextRun" /\ calc.schedule.frequency \in Recurring)
    => calc.nextRun > now

\* C37: for a daily, weekly or monthly schedule, a zone and a now,
\* calculateNextRun returns the instant getDateFromSchedule returns
C37_CalculatorsAgree ==
  (calc.pc = "calculateNextRun" /\ calc.schedule.frequency \in Recurring)
    => calc.nextRun
         = getDateFromSchedule(calc.schedule, calc.timezone, now)

\* C39: a pass without failures that handles a recurring reminder with
\* missed occurrences (its nextRun is a day or more before the pass)
\* delivers it once and leaves it with a nextRun and an index key strictly
\* after the current time
C39_NoCatchUpBurst ==
  (/\ Handled
   /\ sched.last.reminder.schedule.frequency \in Recurring
   /\ DateParse(sched.last.reminder.nextRun) + SecondsPerDay
        <= sched.last.currentTime
   /\ sched.last.delivery = "ok"
   /\ faults = 0)
    => /\ sent[<<sched.last.userId, sched.last.reminderId,
                 minuteBucket(sched.last.currentTime)>>] = 1
       /\ sched.last.calc > sched.last.currentTime
       /\ <<sched.last.userId, sched.last.reminderId>>
            \in DOMAIN reminder_schedule
       /\ reminder_schedule[<<sched.last.userId, sched.last.reminderId>>]
            > sched.last.currentTime

\* the index key of the reminder of a due entry
ScoreOf(entry) == reminder_schedule[<<entry.userId, entry.reminderId>>]

\* C35: the loop takes up an entry only when it is in no entry's body; the
\* entry it takes up is the first one left of the snapshot, its index key
\* is not below the key of the entry it handled before in this pass and
\* not above the key of any entry still left; and the loop stays with that
\* entry until its body is left
C35_OneAtATimeInOrder ==
  [][/\ (sched.pc = "for" /\ sched'.pc = "sendMessage")
          => /\ sched.cur = NoEntry
             /\ sched'.cur.userId = Head(sched.due).userId
             /\ sched'.cur.reminderId = Head(sched.due).reminderId
             /\ sched.last.kind # "none"
                  => ScoreOf(sched.last) <= ScoreOf(sched'.cur)
             /\ \A i \in DOMAIN sched.due :
                  ScoreOf(sched'.cur) <= ScoreOf(sched.due[i])
     /\ (InEntry /\ sched' # sched)
          => \/ /\ sched'.cur # NoEntry
                /\ sched'.pc # "sendMessage"
                /\ sched'.cur.userId = sched.cur.userId
                /\ sched'.cur.reminderId = sched.cur.reminderId
             \/ /\ sched'.cur = NoEntry
                /\ sched'.pc = "for"
                /\ sched'.last.userId = sched.cur.userId
                /\ sched'.last.reminderId = sched.cur.reminderId]_vars

\* the loop is in the body of an entry whose index key is above the key of
\* the entry it handled before in this pass
C35_SecondEntryLater ==
  /\ InEntry
  /\ sched.last.kind = "done"
  /\ ScoreOf(sched.last) < ScoreOf(sched.cur)

\* the keys of the entries the pass has read and of the ones it has yet to
\* read
SnapshotKeys(s) ==
  {<<s.due[i].userId, s.due[i].reminderId>> : i \in DOMAIN s.due}
    \cup {s.keys[i] : i \in DOMAIN s.keys}

\* C34: the keys a pass takes from the index have a key <= the poll time,
\* which is not after now; an entry joins the due entries only with the
\* record its key has when it is read, and a key without a record is
\* dropped; no other step adds to the snapshot; and every delivery is for
\* the first due entry of the snapshot, with the message of its record
C34_DeliveredOnlyWhenDue ==
  [][/\ (sched.pc = "zRangeByScore" /\ sched'.pc # "idle")
          => /\ sched.dueNow <= now
             /\ sched'.due = <<>>
             /\ \A k \in SnapshotKeys(sched') :
                  /\ k \in DOMAIN reminder_schedule
                  /\ reminder_schedule[k] <= sched.dueNow
     /\ (sched.pc = "hGet" /\ sched'.pc # "idle" /\ sched' # sched)
          => /\ sched'.keys = Tail(sched.keys)
             /\ IF Head(sched.keys) \in DOMAIN reminders
                THEN sched'.due =
                       Append(sched.due,
                              [userId |-> Head(sched.keys)[1],
                               reminderId |-> Head(sched.keys)[2],
                               reminder |-> reminders[Head(sched.keys)]])
                ELSE sched'.due = sched.due
     /\ sched.pc \notin {"idle", "zRangeByScore"}
          => SnapshotKeys(sched') \subseteq SnapshotKeys(sched)
     /\ (sched.pc = "for" /\ sched'.pc = "sendMessage")
          => /\ sched'.cur.userId = Head(sched.due).userId
             /\ sched'.cur.reminderId = Head(sched.due).reminderId
             /\ sched'.cur.reminder = Head(sched.due).reminder
             /\ sched'.cur.sentText = Head(sched.due).reminder.message
     /\ (sched' # sched /\ sched'.pc = "sendMessage") => sched.pc = "for"]_vars

\* a delivery is being made in a pass that found, due in the index, a key
\* without a record and dropped it
C34_DeliveryBesideDroppedKey ==
  /\ sched.pc = "sendMessage"
  /\ \E k \in DOMAIN reminder_schedule :
       /\ reminder_schedule[k] <= sched.dueNow
       /\ k \notin DOMAIN reminders
       /\ k # <<sched.cur.userId, sched.cur.reminderId>>
       /\ faults > 0
       /\ \A i \in DOMAIN sched.due :
            k # <<sched.due[i].userId, sched.due[i].reminderId>>

\* the records and the index entries of owner o
OwnedRecords(hash, o) ==
  [k \in {x \in DOMAIN hash : x[1] = o} |-> hash[k]]

\* C38: a step changes the records and the index entries of no owner but
\* those a handler or the loop is at work for, and an entry the dedup
\* guard makes the loop skip has itself been delivered in this minute
C38_OwnerIsolation ==
  /\ [][LET atWork ==
              (IF remind.pc # "idle" THEN {remind.chatId} ELSE {})
                \cup (IF del.pc # "idle" THEN {del.chatId} ELSE {})
                \cup (IF bulk.pc # "idle" THEN {bulk.chatId} ELSE {})
                \cup (IF sched.cur # NoEntry THEN {sched.cur.userId}
                                             ELSE {})
        IN \A o \in Owners \ atWork :
             /\ OwnedRecords(reminders', o) = OwnedRecords(reminders, o)
             /\ OwnedRecords(reminder_schedule', o)
                  = OwnedRecords(reminder_schedule, o)]_vars
  /\ [](sched.last.kind = "skipped"
          => <<sched.last.userId, sched.last.reminderId,
               minuteBucket(sched.last.currentTime)>> \in DOMAIN sent)

\* C36: when a pass ends, the dedup map holds no entry whose timestamp is
\* more than the retention window before the time the pass polled at
C36_DedupEviction ==
  [][(sched.pc # "idle" /\ sched'.pc = "idle" /\ faults' = 0)
       => \A k \in DOMAIN processedReminders' :
            sched.dueNow - processedReminders'[k] <= RetentionWindow]_vars

C32_NoPassAfterShutdown ==
  [][(signal # "none" /\ sched.dueNow > 0)
       => ~(sched.pc = "idle" /\ sched'.pc # "idle")]_vars
====
